---- MODULE Spec2Model ----
(***************************************************************************)
(* MongoStorage: the document backend of the storage abstraction.          *)
(*                                                                         *)
(* The database is shared by concurrent callers (async callers of one      *)
(* process or callers of several processes).  Every database call          *)
(* (findOne, updateOne, deleteOne) is one atomic step; the local           *)
(* computation of a handler between two database calls belongs to the      *)
(* step of the call before it.                                             *)
(*                                                                         *)
(* In the specifications of the storage handlers, of list and of the       *)
(* import the connection is established: db is set, so the ensureInit()    *)
(* that opens every handler returns at once.  SpecConn starts without a    *)
(* connection and follows init, doInit and bootstrap await by await.       *)
(* SpecLife adds close().  SpecAuth and SpecMcp are the callers Auth and   *)
(* McpAuth, which choose per call between the database and a JSON file.    *)
(*                                                                         *)
(* Strings that the code joins or splits are tuples of one-character       *)
(* strings, so that ids.join("/") is a real concatenation.                 *)
(* A document is a function from field names to values; a document has     *)
(* exactly the fields that were $set on it.  updatedAt is written by every *)
(* operation and read by none, it is left out of the documents.            *)
(* A payload (the data field) is a sequence of numbers; the mutate         *)
(* function fn of update is drawn from the family "push m onto the draft". *)
(***************************************************************************)
EXTENDS Integers, Sequences, FiniteSets, TLC

VARIABLES
    store,     \* collection name -> set of documents of that collection
    pc,        \* per caller: "idle", "find" (before findOne), "cas" (before updateOne)
    call,      \* per caller: the running update call [key, fn], NoCall when idle
    doc,       \* per caller: the document returned by the last findOne of the call,
               \* for Auth and McpAuth the data that all() returned
    content,   \* per caller: the mutated clone of doc.data, for McpAuth the entry
               \* to write
    attempt,   \* per caller: the loop counter of update
    wrote,     \* history per caller: a step of the running call changed the store
    last,      \* history: the call that completed last, with its outcome
    hist,      \* history per key: payload of the last write, mutators committed since,
               \* updates returned since the document was made, callers whose
               \* conditional write is due on a document removed since they read it
    client,    \* module variable client: the newest MongoClient, 0 for null
    db,        \* module variable db: the client whose database it is, 0 for null
    initPromise, \* module variable initPromise: the doInit run it belongs to, 0 for null
    inits,     \* the doInit runs started so far, each with its position; own: a run
               \* of this process
    waits,     \* per caller: the doInit run whose promise it awaits, 0 for none
    indexes,   \* the indexes of the database
    sys,       \* collections config, _meta, auth and mcp_auth of the database
    fs,        \* the files under the data directory
    imp,       \* per caller: what is left to do of its importFromFilesystem run
    markWrites, \* history: how often the import marker was written
    uri        \* process.env.OPENCODE_MONGODB_URI is set

\* the state of the storage operations
storageVars == <<store, pc, call, doc, content, attempt, wrote, last, hist>>

\* connection, system collections and import
extVars == <<client, db, initPromise, inits, waits, indexes, sys, fs, imp, markWrites,
             uri>>

vars == <<store, pc, call, doc, content, attempt, wrote, last, hist,
          client, db, initPromise, inits, waits, indexes, sys, fs, imp, markWrites,
          uri>>

----------------------------------------------------------------------------
(* Bounds *)

\* doInit runs of a process
MaxInits == 2

MaxVersion == 2     \* a caller starts an update only on a version below this

(* Program constants *)

maxRetries == 3

----------------------------------------------------------------------------
(* Strings, keys, payloads *)

Slash == "/"
Undefined == <<"undefined">>      \* ids[0] of an empty ids array

Procs == {"c1", "c2", "c3"}       \* callers sharing the database
Pair == {"c1", "c2"}              \* the callers of Spec
Single == {"c1"}                  \* the caller of SpecKV

Mutators == {1, 2}                \* fn = "push m"
WriteVals == {<< >>, <<0>>}       \* payloads given to write

KnownTypes == {"session", "message", "part", "project", "share", "session_diff"}

KeySession == [type |-> "session", ids |-> << <<"p">>, <<"s">> >>]
KeyMessage == [type |-> "message", ids |-> << <<"s">> >>]
KeyTodo    == [type |-> "todo", ids |-> << <<"t">>, <<"u">> >>]
Keys == {KeySession, KeyMessage, KeyTodo}
\* keys of the type "sessions", which has no entry in COLLECTION_MAP, and a
\* key with a segment that contains the separator
KeySessions == [type |-> "sessions", ids |-> << <<"p">>, <<"s">> >>]
KeyTodoSlash == [type |-> "todo", ids |-> << <<"t", "/", "u">> >>]
IndepKeys == {KeySession, KeySessions, KeyTodo, KeyTodoSlash}

HotKey == KeySession              \* the key the concurrent callers contend on

NoDoc  == [null |-> TRUE]
NoCall == [none |-> TRUE]
NoLast == [op |-> "none"]

----------------------------------------------------------------------------
(* Key model *)

\* COLLECTION_MAP[type] || type
COLLECTION_MAP ==
    [t \in KnownTypes |->
        CASE t = "session"      -> "sessions"
          [] t = "message"      -> "messages"
          [] t = "part"         -> "parts"
          [] t = "project"      -> "projects"
          [] t = "share"        -> "shares"
          [] t = "session_diff" -> "session_diffs"]

CollectionName(type) ==
    IF type \in DOMAIN COLLECTION_MAP THEN COLLECTION_MAP[type] ELSE type

Collections == {CollectionName(k.type) : k \in Keys}

\* ids[i] of a JavaScript array, i counted from 0
At(ids, i) == IF i + 1 <= Len(ids) THEN ids[i + 1] ELSE Undefined

\* ids.join("/")
RECURSIVE Join(_)
Join(ids) ==
    IF Len(ids) = 0 THEN << >>
    ELSE IF Len(ids) = 1 THEN ids[1]
    ELSE ids[1] \o <<Slash>> \o Join(Tail(ids))

buildQuery(type, ids) ==
    CASE type = "session" ->
            IF Len(ids) = 2
            THEN [projectId |-> At(ids, 0), sessionId |-> At(ids, 1)]
            ELSE [projectId |-> At(ids, 0)]
      [] type = "message" ->
            IF Len(ids) = 2
            THEN [sessionId |-> At(ids, 0), messageId |-> At(ids, 1)]
            ELSE [sessionId |-> At(ids, 0)]
      [] type = "part" ->
            IF Len(ids) = 2
            THEN [messageId |-> At(ids, 0), partId |-> At(ids, 1)]
            ELSE [messageId |-> At(ids, 0)]
      [] type = "project"      -> [projectId |-> At(ids, 0)]
      [] type = "share"        -> [shareId |-> At(ids, 0)]
      [] type = "session_diff" -> [sessionId |-> At(ids, 0)]
      [] OTHER                 -> [_id |-> Join(ids)]

buildDocId(type, ids) == Join(ids)

----------------------------------------------------------------------------
(* The database calls the handlers make *)

\* a document matches a filter when it has every field of the filter with
\* the filter's value
Matches(d, filter) ==
    \A f \in DOMAIN filter : f \in DOMAIN d /\ d[f] = filter[f]

\* $set
SetFields(d, upd) ==
    [f \in DOMAIN d \cup DOMAIN upd |-> IF f \in DOMAIN upd THEN upd[f] ELSE d[f]]

\* coll.findOne(filter): the matching document or null
FindOne(coll, filter) ==
    IF \E d \in coll : Matches(d, filter)
    THEN CHOOSE d \in coll : Matches(d, filter)
    ELSE NoDoc

\* coll.updateOne(filter, {$set, $setOnInsert, $inc: {version: inc}}, {upsert})
\* returns the collection afterwards and matchedCount
UpdateOne(coll, filter, set, setOnInsert, inc, upsert) ==
    IF \E d \in coll : Matches(d, filter)
    THEN LET d == CHOOSE e \in coll : Matches(e, filter)
             s == SetFields(d, set)
             n == IF inc = 0 THEN s
                  ELSE SetFields(s, [version |->
                          (IF "version" \in DOMAIN s THEN s.version ELSE 0) + inc])
         IN  [coll |-> (coll \ {d}) \cup {n}, matchedCount |-> 1]
    ELSE IF upsert
         THEN LET s == SetFields(SetFields(filter, set), setOnInsert)
                  n == IF inc = 0 THEN s
                       ELSE SetFields(s, [version |->
                               (IF "version" \in DOMAIN s THEN s.version ELSE 0) + inc])
              IN  [coll |-> coll \cup {n}, matchedCount |-> 0]
         ELSE [coll |-> coll, matchedCount |-> 0]

\* coll.deleteOne(filter)
DeleteOne(coll, filter) ==
    IF \E d \in coll : Matches(d, filter)
    THEN coll \ {CHOOSE d \in coll : Matches(d, filter)}
    ELSE coll

NoFields == [f \in {} |-> 0]

----------------------------------------------------------------------------
(* Outcomes of a call *)

Ok(v)      == [status |-> "ok", value |-> v]
Done       == [status |-> "ok"]
\* variant: the error is thrown without error.code
NotFound_NoCode == [status |-> "error", code |-> "none"]

NotFound   == [status |-> "error", code |-> "ENOENT"]
Conflict   == [status |-> "error", code |-> "none", retries |-> maxRetries]

\* fn(content): push m onto the draft
Mutate(m, draft) == Append(draft, m)

RECURSIVE MutateAll(_, _)
MutateAll(fns, payload) ==
    IF Len(fns) = 0 THEN payload
    ELSE MutateAll(Tail(fns), Mutate(Head(fns), payload))

----------------------------------------------------------------------------
(* read, write and remove are one database call each *)

\* variant: read returns the document instead of its data field
read_WholeDoc(st, key) ==
    LET d == FindOne(st[CollectionName(key.type)],
                     [_id |-> buildDocId(key.type, key.ids)])
    IN  IF d = NoDoc THEN NotFound ELSE Ok(d)

read(st, key) ==
    LET type == key.type
        ids  == key.ids
        coll == st[CollectionName(type)]
        docId == buildDocId(type, ids)
        d == FindOne(coll, [_id |-> docId])
    IN  IF d = NoDoc THEN NotFound ELSE Ok(d.data)

\* variant: write counts a version, $inc instead of $setOnInsert
write_BumpVersion(st, key, c) ==
    LET collectionName == CollectionName(key.type)
        docId == buildDocId(key.type, key.ids)
        r == UpdateOne(st[collectionName], [_id |-> docId],
                       SetFields(buildQuery(key.type, key.ids),
                                 [_id |-> docId, data |-> c]),
                       NoFields, 1, TRUE)
    IN  [st EXCEPT ![collectionName] = r.coll]

\* variant: version: 1 sits in $set instead of $setOnInsert
write_ResetVersion(st, key, c) ==
    LET collectionName == CollectionName(key.type)
        docId == buildDocId(key.type, key.ids)
        r == UpdateOne(st[collectionName], [_id |-> docId],
                       SetFields(buildQuery(key.type, key.ids),
                                 [_id |-> docId, data |-> c, version |-> 1]),
                       NoFields, 0, TRUE)
    IN  [st EXCEPT ![collectionName] = r.coll]

write(st, key, c) ==
    LET type == key.type
        ids  == key.ids
        collectionName == CollectionName(type)
        query == buildQuery(type, ids)
        docId == buildDocId(type, ids)
        r == UpdateOne(st[collectionName], [_id |-> docId],
                       SetFields(query, [_id |-> docId, data |-> c]),
                       [version |-> 1], 0, TRUE)
    IN  [st EXCEPT ![collectionName] = r.coll]

\* variant: the filter is the whole key joined, entity type included
remove_FullKeyId(st, key) ==
    LET collectionName == CollectionName(key.type)
    IN  [st EXCEPT ![collectionName] =
            DeleteOne(st[collectionName],
                      [_id |-> Join(<<<<key.type>>>> \o key.ids)])]

remove(st, key) ==
    LET type == key.type
        ids  == key.ids
        collectionName == CollectionName(type)
        docId == buildDocId(type, ids)
    IN  [st EXCEPT ![collectionName] = DeleteOne(st[collectionName], [_id |-> docId])]

\* the stored document of a key, NoDoc when there is none
Stored(st, key) ==
    FindOne(st[CollectionName(key.type)], [_id |-> buildDocId(key.type, key.ids)])

NoHist  == [base |-> << >>, commits |-> << >>, removed |-> FALSE, updates |-> 0,
            stale |-> {}]
Removed == [base |-> << >>, commits |-> << >>, removed |-> TRUE, updates |-> 0,
            stale |-> {}]

Read(p, k) ==
    /\ pc[p] = "idle"
    /\ last' = [op |-> "read", proc |-> p, key |-> k, out |-> read(store, k)]
    /\ UNCHANGED <<store, pc, call, doc, content, attempt, wrote, hist>>
    /\ UNCHANGED extVars

Write(p, k, c) ==
    /\ pc[p] = "idle"
    /\ store' = write(store, k, c)
    /\ last' = [op |-> "write", proc |-> p, key |-> k, arg |-> c, out |-> Done]
    /\ hist' = [hist EXCEPT ![k] =
                  [base |-> c, commits |-> << >>, removed |-> FALSE,
                   updates |-> IF Stored(store, k) = NoDoc THEN 0 ELSE @.updates,
                   stale |-> @.stale]]
    /\ UNCHANGED <<pc, call, doc, content, attempt, wrote>>
    /\ UNCHANGED extVars

Remove(p, k) ==
    /\ pc[p] = "idle"
    /\ store' = remove(store, k)
    /\ last' = [op |-> "remove", proc |-> p, key |-> k, out |-> Done]
    /\ hist' = [hist EXCEPT ![k] =
                  [Removed EXCEPT !.stale = hist[k].stale \cup
                        {q \in Procs : pc[q] = "cas" /\ call[q].key = k}]]
    /\ UNCHANGED <<pc, call, doc, content, attempt, wrote>>
    /\ UNCHANGED extVars

----------------------------------------------------------------------------
(* update: a loop of findOne and a conditional updateOne *)

\* doc.version || 0
currentVersion(d) ==
    IF "version" \in DOMAIN d /\ d.version # 0 THEN d.version ELSE 0

\* the call starts; the bound keeps the version counter finite
UpdateBegin(p, k, m) ==
    /\ pc[p] = "idle"
    /\ Stored(store, k) # NoDoc => currentVersion(Stored(store, k)) < MaxVersion
    /\ pc' = [pc EXCEPT ![p] = "find"]
    /\ call' = [call EXCEPT ![p] = [key |-> k, fn |-> m]]
    /\ attempt' = [attempt EXCEPT ![p] = 0]
    /\ wrote' = [wrote EXCEPT ![p] = FALSE]
    /\ UNCHANGED <<store, doc, content, last, hist>>
    /\ UNCHANGED extVars

\* variant: findOne hoisted out of the loop, a retry reuses the first document
UpdateFindDoc_Stale(p) ==
    LET key == call[p].key
    IN  IF attempt[p] > 0 /\ doc[p] # NoDoc
        THEN doc[p]
        ELSE FindOne(store[CollectionName(key.type)],
                     [_id |-> buildDocId(key.type, key.ids)])

\* the document the findOne of this attempt returns
UpdateFindDoc(p) ==
    LET key == call[p].key
    IN  FindOne(store[CollectionName(key.type)],
                [_id |-> buildDocId(key.type, key.ids)])

\* variant: the draft is made once, before the loop, a retry mutates it again
Draft_Reused(p, d) == IF attempt[p] > 0 THEN content[p] ELSE d.data

\* structuredClone(doc.data): the draft of this attempt
Draft(p, d) == d.data

\* const doc = await coll.findOne({ _id: docId }); throw ENOENT when null,
\* else clone the payload and apply fn to the clone
UpdateFind(p) ==
    /\ pc[p] = "find"
    /\ LET d == UpdateFindDoc(p)
       IN  IF d = NoDoc
           THEN /\ pc' = [pc EXCEPT ![p] = "idle"]
                /\ last' = [op |-> "update", proc |-> p, key |-> call[p].key,
                            arg |-> call[p].fn, out |-> NotFound,
                            finds |-> attempt[p] + 1, cass |-> attempt[p],
                            wrote |-> wrote[p]]
                /\ call' = [call EXCEPT ![p] = NoCall]
                /\ doc' = [doc EXCEPT ![p] = NoDoc]
                /\ content' = [content EXCEPT ![p] = << >>]
                /\ attempt' = [attempt EXCEPT ![p] = 0]
                /\ wrote' = [wrote EXCEPT ![p] = FALSE]
           ELSE /\ pc' = [pc EXCEPT ![p] = "cas"]
                /\ doc' = [doc EXCEPT ![p] = d]
                /\ content' = [content EXCEPT ![p] = Mutate(call[p].fn, Draft(p, d))]
                /\ UNCHANGED <<call, attempt, wrote, last>>
    /\ UNCHANGED <<store, hist>>
    /\ UNCHANGED extVars

\* variant: the filter of the conditional write lacks the version
UpdateCasResult_NoVersion(p) ==
    LET key == call[p].key
        docId == buildDocId(key.type, key.ids)
    IN  UpdateOne(store[CollectionName(key.type)],
                  [_id |-> docId],
                  [data |-> content[p]], NoFields, 1, FALSE)

\* variant: the handler tests result.upsertedCount, 0 without upsert
UpdateCasResult_UpsertedCount(p) ==
    LET key == call[p].key
        docId == buildDocId(key.type, key.ids)
        r == UpdateOne(store[CollectionName(key.type)],
                       [_id |-> docId, version |-> currentVersion(doc[p])],
                       [data |-> content[p]], NoFields, 1, FALSE)
    IN  [coll |-> r.coll, matchedCount |-> 0]

\* the conditional write of this attempt: the collection afterwards and
\* matchedCount
UpdateCasResult(p) ==
    LET key == call[p].key
        docId == buildDocId(key.type, key.ids)
    IN  UpdateOne(store[CollectionName(key.type)],
                  [_id |-> docId, version |-> currentVersion(doc[p])],
                  [data |-> content[p]], NoFields, 1, FALSE)

\* variant: the loop has no bound
MoreAttempts_Unbounded(a) == TRUE

\* variant: the loop test is attempt <= maxRetries
MoreAttempts_OffByOne(a) == a <= maxRetries

\* the loop test attempt < maxRetries, after attempt++
MoreAttempts(a) == a < maxRetries

\* await coll.updateOne(...); return content when matchedCount is 1, else
\* the next attempt, and after maxRetries attempts the conflict error
UpdateCas(p) ==
    /\ pc[p] = "cas"
    /\ UNCHANGED extVars
    /\ LET key == call[p].key
           r == UpdateCasResult(p)
           st == [store EXCEPT ![CollectionName(key.type)] = r.coll]
           w == wrote[p] \/ st # store
           ret(out) == [op |-> "update", proc |-> p, key |-> key,
                        arg |-> call[p].fn, out |-> out,
                        finds |-> attempt[p] + 1, cass |-> attempt[p] + 1,
                        wrote |-> w]
       IN  /\ store' = st
           /\ IF r.matchedCount = 1
              THEN /\ last' = ret(Ok(content[p]))
                   /\ hist' = [hist EXCEPT ![key].commits =
                                 Append(@, [fn |-> call[p].fn, by |-> p,
                                            ver |-> currentVersion(doc[p]),
                                            data |-> content[p]]),
                                            ![key].updates = @ + 1,
                                            ![key].stale = @ \ {p}]
                   /\ pc' = [pc EXCEPT ![p] = "idle"]
                   /\ call' = [call EXCEPT ![p] = NoCall]
                   /\ doc' = [doc EXCEPT ![p] = NoDoc]
                   /\ content' = [content EXCEPT ![p] = << >>]
                   /\ attempt' = [attempt EXCEPT ![p] = 0]
                   /\ wrote' = [wrote EXCEPT ![p] = FALSE]
              ELSE IF MoreAttempts(attempt[p] + 1)
              THEN /\ pc' = [pc EXCEPT ![p] = "find"]
                   /\ attempt' = [attempt EXCEPT ![p] = attempt[p] + 1]
                   /\ wrote' = [wrote EXCEPT ![p] = w]
                   /\ hist' = [hist EXCEPT ![key].stale = @ \ {p}]
                   /\ UNCHANGED <<call, doc, content, last>>
              ELSE /\ last' = ret(Conflict)
                   /\ pc' = [pc EXCEPT ![p] = "idle"]
                   /\ call' = [call EXCEPT ![p] = NoCall]
                   /\ doc' = [doc EXCEPT ![p] = NoDoc]
                   /\ content' = [content EXCEPT ![p] = << >>]
                   /\ attempt' = [attempt EXCEPT ![p] = 0]
                   /\ wrote' = [wrote EXCEPT ![p] = FALSE]
                   /\ hist' = [hist EXCEPT ![key].stale = @ \ {p}]

----------------------------------------------------------------------------
(* Connection, system collections, files: the values of an established
   connection on a bootstrapped database *)

\* the createIndex calls of bootstrap, in their order
BootstrapIndexes ==
    << [coll |-> "sessions", field |-> "projectId", unique |-> FALSE],
       [coll |-> "messages", field |-> "sessionId", unique |-> FALSE],
       [coll |-> "parts",    field |-> "messageId", unique |-> FALSE],
       [coll |-> "auth",     field |-> "providerId", unique |-> TRUE],
       [coll |-> "mcp_auth", field |-> "mcpName", unique |-> TRUE] >>

\* defaultConfig of bootstrap
DefaultData == "$schema" :> "https://opencode.ai/config.json"
DefaultConfig == [_id |-> "default", data |-> DefaultData]

SysCollections == {"config", "_meta", "auth", "mcp_auth"}
EmptySys == [c \in SysCollections |-> {}]

\* a file or path that does not exist, a file that is not JSON
Missing == [missing |-> TRUE]
Unparseable == [unparseable |-> TRUE]

\* a data directory without files
EmptyFs == [storage |-> {}, auth |-> Missing, mcp |-> Missing,
            config |-> <<Missing, Missing>>]

NoImport == [stage |-> "none", files |-> {}, entries |-> << >>, cand |-> 1,
             tried |-> {}, failed |-> {}]

\* a doInit run that has returned
InitDone == [at |-> "done", n |-> Len(BootstrapIndexes), conn |-> "ok",
             closed |-> FALSE, boot |-> TRUE, own |-> TRUE]

\* the connection is established and bootstrap has run; no import runs
Established ==
    /\ client = 1
    /\ db = 1
    /\ initPromise = 1
    /\ inits = <<InitDone>>
    /\ waits = [p \in Procs |-> 0]
    /\ indexes = {BootstrapIndexes[i] : i \in DOMAIN BootstrapIndexes}
    /\ sys = [EmptySys EXCEPT !["config"] = {DefaultConfig}]
    /\ fs = EmptyFs
    /\ imp = [p \in Procs |-> NoImport]
    /\ markWrites = 0
    /\ uri = TRUE

----------------------------------------------------------------------------
(* init, doInit, ensureInit and bootstrap.  A doInit run is an entry of
   inits; entry i made client i.  Its position is the await it stands at:
   "connect", "index" (n createIndex calls are through), "configFind",
   "configInsert", and "done" or "failed" once it has returned or thrown. *)

ConfigVals == {[theme |-> 1], [theme |-> 2, model |-> 1]}

NoValue == [undefined |-> TRUE]
ConnectError == [status |-> "error", code |-> "init"]
NotInitialized == [status |-> "error", code |-> "MongoDB not initialized"]

\* the clients whose connection is open
OpenClients == {i \in DOMAIN inits : inits[i].conn = "ok" /\ ~inits[i].closed}

\* variant: a constant computed when the module is loaded (the endpoint is
\* configured at that time)
isEnabled_AtLoad(u) == TRUE

\* isEnabled: !!process.env.OPENCODE_MONGODB_URI
isEnabled(u) == u

\* a doInit run at await client.connect()
NewInit == [at |-> "connect", n |-> 0, conn |-> "pending", closed |-> FALSE,
            boot |-> FALSE, own |-> TRUE]

\* variant: init starts a doInit run whether or not one was started
initHasPromise_Never == FALSE

\* init: if (initPromise) return initPromise
initHasPromise == initPromise # 0

\* configGet: doc?.data
configGet_WholeDoc(sy) ==
    LET d == FindOne(sy["config"], [_id |-> "default"])
    IN  IF d = NoDoc THEN Ok(NoValue) ELSE Ok(d)

configGet(sy) ==
    LET d == FindOne(sy["config"], [_id |-> "default"])
    IN  IF d = NoDoc THEN Ok(NoValue) ELSE Ok(d.data)

\* variant: the config keys are spread over the document
configSet_Spread(sy, config) ==
    [sy EXCEPT !["config"] =
        UpdateOne(sy["config"], [_id |-> "default"],
                  SetFields([_id |-> "default"], config),
                  NoFields, 0, TRUE).coll]

\* configSet: updateOne({_id: "default"}, {$set: {data: config}}, {upsert})
configSet(sy, config) ==
    [sy EXCEPT !["config"] =
        UpdateOne(sy["config"], [_id |-> "default"], [data |-> config],
                  NoFields, 0, TRUE).coll]

ConfigOps == {[op |-> "configGet"]} \cup
             {[op |-> "configSet", arg |-> c] : c \in ConfigVals}

connUnchanged == <<store, doc, content, attempt, wrote, hist, fs, imp, markWrites,
                   uri>>

\* a caller enters a handler: await ensureInit(), and init() with the
\* synchronous start of doInit when there is neither db nor promise
EnsureInit(p, o) ==
    /\ pc[p] = "idle"
    /\ call' = [call EXCEPT ![p] = o]
    /\ IF ~isEnabled(uri) \/ db # 0
       THEN /\ pc' = [pc EXCEPT ![p] = "ready"]
            /\ UNCHANGED <<client, initPromise, inits, waits>>
       ELSE IF initHasPromise
       THEN /\ pc' = [pc EXCEPT ![p] = "init"]
            /\ waits' = [waits EXCEPT ![p] = initPromise]
            /\ UNCHANGED <<client, initPromise, inits>>
       ELSE /\ Len(inits) < MaxInits
            /\ pc' = [pc EXCEPT ![p] = "init"]
            /\ client' = Len(inits) + 1
            /\ inits' = Append(inits, NewInit)
            /\ initPromise' = Len(inits) + 1
            /\ waits' = [waits EXCEPT ![p] = Len(inits) + 1]
    /\ UNCHANGED <<db, indexes, sys, last>>
    /\ UNCHANGED connUnchanged

\* client.connect() resolves: db = client.db(), which throws when client
\* is null by then, and bootstrap issues its first createIndex
ConnectOk(i) ==
    /\ inits[i].at = "connect"
    /\ IF ~inits[i].own
       THEN /\ inits' = [inits EXCEPT ![i].at = "index", ![i].conn = "ok",
                                       ![i].boot = TRUE]
            /\ UNCHANGED db
       ELSE IF client = 0
       THEN /\ inits' = [inits EXCEPT ![i].at = "failed", ![i].conn = "ok"]
            /\ UNCHANGED db
       ELSE /\ db' = client
            /\ inits' = [inits EXCEPT ![i].at = "index", ![i].conn = "ok",
                                       ![i].boot = TRUE]
    /\ UNCHANGED <<pc, call, client, initPromise, waits, indexes, sys, last>>
    /\ UNCHANGED connUnchanged

\* another process that uses the same database starts its doInit; its
\* module variables are its own and it does not close
PeerInit ==
    /\ \A i \in DOMAIN inits : inits[i].own
    /\ inits' = Append(inits, [NewInit EXCEPT !.own = FALSE])
    /\ UNCHANGED <<pc, call, client, db, initPromise, waits, indexes, sys, last>>
    /\ UNCHANGED connUnchanged

\* client.connect() rejects: doInit throws
ConnectFail(i) ==
    /\ inits[i].at = "connect"
    /\ inits' = [inits EXCEPT ![i].at = "failed", ![i].conn = "failed"]
    /\ UNCHANGED <<pc, call, client, db, initPromise, waits, indexes, sys, last>>
    /\ UNCHANGED connUnchanged

\* bootstrap: one createIndex resolves; the db.collection(...) of the next
\* call throws when db is null by then
BootstrapIndex(i) ==
    /\ inits[i].at = "index"
    /\ indexes' = indexes \cup {BootstrapIndexes[inits[i].n + 1]}
    /\ inits' = [inits EXCEPT ![i].n = @ + 1,
                               ![i].at = IF inits[i].own /\ db = 0 THEN "failed"
                                         ELSE IF inits[i].n + 1 = Len(BootstrapIndexes)
                                         THEN "configFind"
                                         ELSE "index"]
    /\ UNCHANGED <<pc, call, client, db, initPromise, waits, sys, last>>
    /\ UNCHANGED connUnchanged

\* bootstrap: configColl.findOne({_id: "default"})
BootstrapConfigFind(i) ==
    /\ inits[i].at = "configFind"
    /\ inits' = [inits EXCEPT ![i].at =
                    IF FindOne(sys["config"], [_id |-> "default"]) = NoDoc
                    THEN "configInsert" ELSE "done"]
    /\ UNCHANGED <<pc, call, client, db, initPromise, waits, indexes, sys, last>>
    /\ UNCHANGED connUnchanged

\* variant: the default document is put in place of the one that exists
insertDefault_Replace(coll) ==
    [coll |-> {d \in coll : d._id # "default"} \cup {DefaultConfig}, ok |-> TRUE]

\* configColl.insertOne(defaultConfig): a duplicate _id throws
insertDefault(coll) ==
    IF FindOne(coll, [_id |-> "default"]) = NoDoc
    THEN [coll |-> coll \cup {DefaultConfig}, ok |-> TRUE]
    ELSE [coll |-> coll, ok |-> FALSE]

\* bootstrap: configColl.insertOne(defaultConfig)
BootstrapConfigInsert(i) ==
    /\ inits[i].at = "configInsert"
    /\ sys' = [sys EXCEPT !["config"] = insertDefault(@).coll]
    /\ inits' = [inits EXCEPT ![i].at =
                    IF insertDefault(sys["config"]).ok THEN "done" ELSE "failed"]
    /\ UNCHANGED <<pc, call, client, db, initPromise, waits, indexes, last>>
    /\ UNCHANGED connUnchanged

\* the promise a caller awaits is settled: ensureInit returns or throws
\* variant: the failure of init() is swallowed and the call completes
Rejected_Swallowed(error) == Done

\* await init() in ensureInit rejects, and so does the call that awaits it
Rejected(error) == error

InitSettled(p) ==
    /\ pc[p] = "init"
    /\ inits[waits[p]].at \in {"done", "failed"}
    /\ waits' = [waits EXCEPT ![p] = 0]
    /\ IF inits[waits[p]].at = "done"
       THEN /\ pc' = [pc EXCEPT ![p] = "ready"]
            /\ UNCHANGED <<call, last>>
       ELSE /\ pc' = [pc EXCEPT ![p] = "idle"]
            /\ call' = [call EXCEPT ![p] = NoCall]
            /\ last' = [op |-> call[p].op, proc |-> p,
                        out |-> Rejected(ConnectError)]
    /\ UNCHANGED <<client, db, initPromise, inits, indexes, sys>>
    /\ UNCHANGED connUnchanged

\* the database call of configGet or configSet
ConfigCall(p) ==
    /\ pc[p] = "ready"
    /\ call[p] \in ConfigOps
    /\ pc' = [pc EXCEPT ![p] = "idle"]
    /\ call' = [call EXCEPT ![p] = NoCall]
    /\ IF db = 0
       THEN /\ last' = [op |-> call[p].op, proc |-> p, out |-> NotInitialized]
            /\ UNCHANGED sys
       ELSE IF call[p].op = "configGet"
       THEN /\ last' = [op |-> "configGet", proc |-> p, out |-> configGet(sys)]
            /\ UNCHANGED sys
       ELSE /\ sys' = configSet(sys, call[p].arg)
            /\ last' = [op |-> "configSet", proc |-> p, arg |-> call[p].arg,
                        out |-> Done]
    /\ UNCHANGED <<client, db, initPromise, inits, waits, indexes>>
    /\ UNCHANGED connUnchanged

\* close up to await client.close(), which is called on the client of
\* that moment
CloseBegin(p) ==
    /\ pc[p] = "idle"
    /\ IF client = 0
       THEN /\ last' = [op |-> "close", proc |-> p, out |-> Done]
            /\ UNCHANGED <<pc, call>>
       ELSE /\ pc' = [pc EXCEPT ![p] = "closing"]
            /\ call' = [call EXCEPT ![p] = [op |-> "close", client |-> client]]
            /\ UNCHANGED last
    /\ UNCHANGED <<client, db, initPromise, inits, waits, indexes, sys>>
    /\ UNCHANGED connUnchanged

\* client.close() resolves: client = null, db = null, initPromise = null
CloseEnd(p) ==
    /\ pc[p] = "closing"
    /\ inits' = [inits EXCEPT ![call[p].client].closed = TRUE]
    /\ client' = 0
    /\ db' = 0
    /\ initPromise' = 0
    /\ pc' = [pc EXCEPT ![p] = "idle"]
    /\ call' = [call EXCEPT ![p] = NoCall]
    /\ last' = [op |-> "close", proc |-> p, out |-> Done]
    /\ UNCHANGED <<waits, indexes, sys>>
    /\ UNCHANGED connUnchanged

----------------------------------------------------------------------------
(* importFromFilesystem.  A storage file is its type directory, its path
   below it without ".json", and its content; auth.json and mcp-auth.json
   are the sequence of their entries.  The files do not change while an
   import runs.  importedAt is a logical time: the number of the marker
   write.  A write, authSet, mcpAuthSet or configSet of the import may
   throw (ok = FALSE); the two calls on the marker succeed. *)

\* Object.entries(COLLECTION_MAP), in its order
ImportOrder == <<"session", "message", "part", "project", "share", "session_diff">>

File(key, c) == [type |-> key.type, rel |-> key.ids, content |-> c]

\* key = [type, ...keyParts]
FileKey(f) == [type |-> f.type, ids |-> f.rel]

\* a file that holds the JSON text of v
Json(v) == [json |-> v]

FsA == [storage |-> {File(KeySession, Json(<<0>>)), File(KeyMessage, Unparseable),
                     File(KeyTodo, Json(<<0>>))},
        auth |-> Json(<<[id |-> "a", data |-> 1], [id |-> "b", data |-> 2]>>),
        mcp |-> Json(<<[id |-> "m", data |-> 1], [id |-> "n", data |-> 2]>>),
        config |-> <<Unparseable, Json([theme |-> 1])>>]
FsB == [storage |-> {File(KeySession, Json(<< >>)), File(KeyMessage, Json(<<0>>))},
        auth |-> Missing,
        mcp |-> Unparseable,
        config |-> <<Json([theme |-> 1]), Json([theme |-> 2, model |-> 1])>>]
FsChoices == {EmptyFs, FsA, FsB}

\* readFile and JSON.parse succeed
Parseable(x) == "json" \in DOMAIN x

\* variant: insertOne({providerId, data}) whatever the collection holds
authSet_Insert(sy, providerId, data) ==
    [sy EXCEPT !["auth"] = @ \cup {[providerId |-> providerId, data |-> data]}]

\* authSet: updateOne({providerId}, {$set: {providerId, data}}, {upsert})
authSet(sy, providerId, data) ==
    [sy EXCEPT !["auth"] =
        UpdateOne(sy["auth"], [providerId |-> providerId],
                  [providerId |-> providerId, data |-> data],
                  NoFields, 0, TRUE).coll]

\* mcpAuthSet: updateOne({mcpName}, {$set: {mcpName, data}}, {upsert})
mcpAuthSet(sy, mcpName, data) ==
    [sy EXCEPT !["mcp_auth"] =
        UpdateOne(sy["mcp_auth"], [mcpName |-> mcpName],
                  [mcpName |-> mcpName, data |-> data],
                  NoFields, 0, TRUE).coll]

\* variant: the check looks for another _id than the one the import writes
imported_OtherId(sy) ==
    FindOne(sy["_meta"], [_id |-> "imported"]) # NoDoc

\* metaColl.findOne({_id: "filesystem_imported"})
imported(sy) ==
    FindOne(sy["_meta"], [_id |-> "filesystem_imported"]) # NoDoc

Skipped == [status |-> "ok", skipped |-> TRUE]

\* the files the storage loop visits: those below a directory of COLLECTION_MAP
VisitedFiles(f) ==
    {x \in f.storage : \E i \in DOMAIN ImportOrder : ImportOrder[i] = x.type}

TypeIndex(type) == CHOOSE i \in DOMAIN ImportOrder : ImportOrder[i] = type

importUnchanged == <<call, doc, content, attempt, wrote, client, db, initPromise,
                     inits, waits, indexes, uri>>

\* the position after the storage loop has handled all of files
AfterFiles(files) == IF files = {} THEN "auth" ELSE "storage"

\* the position after the entries of auth.json or mcp-auth.json
AfterEntries(entries, set, next) == IF Len(entries) = 0 THEN next ELSE set

\* importFromFilesystem up to the answer of the marker check
ImportBegin(p) ==
    /\ pc[p] = "idle"
    /\ IF db = 0
       THEN /\ last' = [op |-> "import", proc |-> p, out |-> NotInitialized]
            /\ UNCHANGED <<pc, imp>>
       ELSE IF imported(sys)
       THEN /\ last' = [op |-> "import", proc |-> p, out |-> Skipped]
            /\ UNCHANGED <<pc, imp>>
       ELSE /\ pc' = [pc EXCEPT ![p] = "import"]
            /\ imp' = [imp EXCEPT ![p] =
                        [stage |-> AfterFiles(VisitedFiles(fs)),
                         files |-> VisitedFiles(fs), entries |-> << >>,
                         cand |-> 1, tried |-> {}, failed |-> {}]]
            /\ UNCHANGED last
    /\ UNCHANGED <<store, hist, sys, fs, markWrites>>
    /\ UNCHANGED importUnchanged

\* importDirectory: one file, parsed and written, each failure caught
ImportFile(p, f, ok) ==
    /\ pc[p] = "import"
    /\ imp[p].stage = "storage"
    /\ f \in imp[p].files
    /\ \A g \in imp[p].files : TypeIndex(f.type) <= TypeIndex(g.type)
    /\ LET left == imp[p].files \ {f}
       IN  IF ~Parseable(f.content)
           THEN /\ ok
                /\ imp' = [imp EXCEPT ![p].files = left,
                                      ![p].stage = AfterFiles(left)]
                /\ UNCHANGED <<store, hist>>
           ELSE IF ok
           THEN /\ store' = write(store, FileKey(f), f.content.json)
                /\ hist' = [hist EXCEPT ![FileKey(f)] =
                              [base |-> f.content.json, commits |-> << >>,
                               removed |-> FALSE,
                               updates |-> IF Stored(store, FileKey(f)) = NoDoc
                                           THEN 0 ELSE @.updates,
                               stale |-> @.stale]]
                /\ imp' = [imp EXCEPT ![p].files = left,
                                      ![p].stage = AfterFiles(left),
                                      ![p].tried = @ \cup {f}]
           ELSE /\ imp' = [imp EXCEPT ![p].files = left,
                                      ![p].stage = AfterFiles(left),
                                      ![p].tried = @ \cup {f},
                                      ![p].failed = @ \cup {f}]
                /\ UNCHANGED <<store, hist>>
    /\ UNCHANGED <<pc, last, sys, fs, markWrites>>
    /\ UNCHANGED importUnchanged

\* JSON.parse(readFile(auth.json)), inside the try of the auth import
ImportAuthRead(p) ==
    /\ pc[p] = "import"
    /\ imp[p].stage = "auth"
    /\ imp' = [imp EXCEPT ![p] =
                IF Parseable(fs.auth)
                THEN [@ EXCEPT !.entries = fs.auth.json,
                               !.stage = AfterEntries(fs.auth.json, "authSet", "mcp")]
                ELSE [@ EXCEPT !.stage = "mcp"]]
    /\ UNCHANGED <<store, hist, pc, last, sys, fs, markWrites>>
    /\ UNCHANGED importUnchanged

\* one authSet of the loop; a throw leaves the loop for the catch
ImportAuthSet(p, ok) ==
    /\ pc[p] = "import"
    /\ imp[p].stage = "authSet"
    /\ LET e == Head(imp[p].entries)
           item == [auth |-> e]
       IN  IF ok
           THEN /\ sys' = authSet(sys, e.id, e.data)
                /\ imp' = [imp EXCEPT ![p].entries = Tail(@),
                             ![p].stage = AfterEntries(Tail(imp[p].entries),
                                                       "authSet", "mcp"),
                             ![p].tried = @ \cup {item}]
           ELSE /\ imp' = [imp EXCEPT ![p].entries = << >>,
                             ![p].stage = "mcp",
                             ![p].tried = @ \cup {item},
                             ![p].failed = @ \cup {item}]
                /\ UNCHANGED sys
    /\ UNCHANGED <<store, hist, pc, last, fs, markWrites>>
    /\ UNCHANGED importUnchanged

\* JSON.parse(readFile(mcp-auth.json)), inside the try of the mcp-auth import
ImportMcpRead(p) ==
    /\ pc[p] = "import"
    /\ imp[p].stage = "mcp"
    /\ imp' = [imp EXCEPT ![p] =
                IF Parseable(fs.mcp)
                THEN [@ EXCEPT !.entries = fs.mcp.json,
                               !.stage = AfterEntries(fs.mcp.json, "mcpSet", "config")]
                ELSE [@ EXCEPT !.stage = "config"]]
    /\ UNCHANGED <<store, hist, pc, last, sys, fs, markWrites>>
    /\ UNCHANGED importUnchanged

\* one mcpAuthSet of the loop; a throw leaves the loop for the catch
ImportMcpSet(p, ok) ==
    /\ pc[p] = "import"
    /\ imp[p].stage = "mcpSet"
    /\ LET e == Head(imp[p].entries)
           item == [mcp |-> e]
       IN  IF ok
           THEN /\ sys' = mcpAuthSet(sys, e.id, e.data)
                /\ imp' = [imp EXCEPT ![p].entries = Tail(@),
                             ![p].stage = AfterEntries(Tail(imp[p].entries),
                                                       "mcpSet", "config"),
                             ![p].tried = @ \cup {item}]
           ELSE /\ imp' = [imp EXCEPT ![p].entries = << >>,
                             ![p].stage = "config",
                             ![p].tried = @ \cup {item},
                             ![p].failed = @ \cup {item}]
                /\ UNCHANGED sys
    /\ UNCHANGED <<store, hist, pc, last, fs, markWrites>>
    /\ UNCHANGED importUnchanged

\* one candidate path of the config import: parse and configSet, break on
\* success, continue on a throw
ImportConfig(p, ok) ==
    /\ pc[p] = "import"
    /\ imp[p].stage = "config"
    /\ LET c == fs.config[imp[p].cand]
           continue == [imp EXCEPT ![p].cand = @ + 1,
                          ![p].stage = IF imp[p].cand + 1 > Len(fs.config)
                                       THEN "mark" ELSE "config"]
       IN  IF ~Parseable(c)
           THEN /\ ok
                /\ imp' = continue
                /\ UNCHANGED sys
           ELSE IF ok
           THEN /\ sys' = configSet(sys, c.json)
                /\ imp' = [imp EXCEPT ![p].stage = "mark"]
           ELSE /\ imp' = continue
                /\ UNCHANGED sys
    /\ UNCHANGED <<store, hist, pc, last, fs, markWrites>>
    /\ UNCHANGED importUnchanged

\* metaColl.updateOne(marker, {$set: {_id, importedAt}}, {upsert})
ImportMark(p) ==
    /\ pc[p] = "import"
    /\ imp[p].stage = "mark"
    /\ sys' = [sys EXCEPT !["_meta"] =
                UpdateOne(sys["_meta"], [_id |-> "filesystem_imported"],
                          [_id |-> "filesystem_imported",
                           importedAt |-> markWrites + 1],
                          NoFields, 0, TRUE).coll]
    /\ markWrites' = markWrites + 1
    /\ last' = [op |-> "import", proc |-> p, out |-> Done,
                tried |-> imp[p].tried, failed |-> imp[p].failed]
    /\ imp' = [imp EXCEPT ![p] = NoImport]
    /\ pc' = [pc EXCEPT ![p] = "idle"]
    /\ UNCHANGED <<store, hist, fs>>
    /\ UNCHANGED importUnchanged

\* the files under the data directory change while no import runs
ChangeFs(f) ==
    /\ \A p \in Procs : imp[p] = NoImport
    /\ f # fs
    /\ fs' = f
    /\ UNCHANGED <<store, hist, pc, last, sys, imp, markWrites>>
    /\ UNCHANGED importUnchanged

----------------------------------------------------------------------------
(* Auth and McpAuth: per call the document backend when isEnabled(), else
   the file auth.json or mcp-auth.json.  A JSON object is the sequence of
   its entries [id, data].  Of the Auth.Info union the model has the "api"
   shape {type, key}; an McpAuth.Entry has the optional fields tokens,
   clientInfo and codeVerifier, a field value "bad" fails its schema.
   safeParse strips the keys the schema does not name. *)

InfoK1 == [type |-> "api", key |-> "k1"]
InfoK2 == [type |-> "api", key |-> "k2"]
InfoNoKey == [type |-> "api"]
InfoValues == {InfoK1, InfoK2}
Providers == {"a", "b"}

\* Info.safeParse(v).success
ValidInfo(v) == {"type", "key"} \subseteq DOMAIN v /\ v.type = "api"

\* Info.safeParse(v).data
ParsedInfo(v) == [f \in {"type", "key"} |-> v[f]]

EntryFields == {"tokens", "clientInfo", "codeVerifier"}

\* Entry.safeParse(v).success
ValidEntry(v) == \A f \in DOMAIN v \cap EntryFields : v[f] # "bad"

\* Entry.safeParse(v).data
ParsedEntry(v) == [f \in DOMAIN v \cap EntryFields |-> v[f]]

\* variant: the entries are passed on without safeParse
parseAuthEntries_Unchecked(entries) == entries

\* Auth.parseAuthEntries: the entries that pass Info.safeParse, parsed
parseAuthEntries(entries) ==
    LET kept == SelectSeq(entries, LAMBDA e : ValidInfo(e.data))
    IN  [i \in DOMAIN kept |-> [id |-> kept[i].id, data |-> ParsedInfo(kept[i].data)]]

\* McpAuth.parseEntries: the entries that pass Entry.safeParse, parsed
parseEntries(entries) ==
    LET kept == SelectSeq(entries, LAMBDA e : ValidEntry(e.data))
    IN  [i \in DOMAIN kept |-> [id |-> kept[i].id, data |-> ParsedEntry(kept[i].data)]]

\* data[id] of a JSON object, undefined when it has no such key
Lookup(entries, id) ==
    IF \E i \in DOMAIN entries : entries[i].id = id
    THEN (CHOOSE e \in {entries[i] : i \in DOMAIN entries} : e.id = id).data
    ELSE NoValue

\* {...data, [id]: value}
SetEntry(entries, id, value) ==
    IF \E i \in DOMAIN entries : entries[i].id = id
    THEN [i \in DOMAIN entries |->
            IF entries[i].id = id THEN [id |-> id, data |-> value] ELSE entries[i]]
    ELSE Append(entries, [id |-> id, data |-> value])

\* delete data[id]
DeleteEntry(entries, id) == SelectSeq(entries, LAMBDA e : e.id # id)

\* file.json().catch(() => ({})), as entries
FileEntries(x) == IF Parseable(x) THEN x.json ELSE << >>

\* the documents of a cursor, in some order
RECURSIVE ToArray(_)
ToArray(docs) ==
    IF docs = {} THEN << >>
    ELSE LET d == CHOOSE x \in docs : TRUE
         IN  <<d>> \o ToArray(docs \ {d})

\* docs.reduce(...): acc[doc.providerId] = doc.data
RECURSIVE ReduceDocs(_, _, _)
ReduceDocs(docs, acc, idField) ==
    IF Len(docs) = 0 THEN acc
    ELSE ReduceDocs(Tail(docs), SetEntry(acc, Head(docs)[idField], Head(docs).data),
                    idField)

\* authGet: doc?.data
authGet(sy, providerId) ==
    LET d == FindOne(sy["auth"], [providerId |-> providerId])
    IN  IF d = NoDoc THEN NoValue ELSE d.data

authAll(sy) == ReduceDocs(ToArray(sy["auth"]), << >>, "providerId")

authRemove(sy, providerId) ==
    [sy EXCEPT !["auth"] = DeleteOne(@, [providerId |-> providerId])]

mcpAuthGet(sy, mcpName) ==
    LET d == FindOne(sy["mcp_auth"], [mcpName |-> mcpName])
    IN  IF d = NoDoc THEN NoValue ELSE d.data

mcpAuthAll(sy) == ReduceDocs(ToArray(sy["mcp_auth"]), << >>, "mcpName")

mcpAuthRemove(sy, mcpName) ==
    [sy EXCEPT !["mcp_auth"] = DeleteOne(@, [mcpName |-> mcpName])]

AuthFileA == Json(<<[id |-> "a", data |-> InfoK1], [id |-> "b", data |-> InfoNoKey]>>)
McpFileA == Json(<<[id |-> "m", data |-> [tokens |-> "t1"]],
                   [id |-> "n", data |-> [tokens |-> "bad", codeVerifier |-> "v1"]]>>)

\* the data directory at the start of the process
AuthFsChoices == {EmptyFs,
                  [EmptyFs EXCEPT !.auth = AuthFileA, !.mcp = McpFileA],
                  [EmptyFs EXCEPT !.auth = Unparseable, !.mcp = Unparseable]}

\* the database at the start of the process
AuthSysChoices ==
    {EmptySys,
     [EmptySys EXCEPT
        !["auth"] = {[providerId |-> "a", data |-> InfoNoKey],
                     [providerId |-> "b", data |-> InfoK2]},
        !["mcp_auth"] = {[mcpName |-> "m", data |-> [clientInfo |-> "bad"]],
                         [mcpName |-> "n", data |-> [tokens |-> "t1"]]}]}

AuthOps == {[op |-> "Auth.get", id |-> k] : k \in Providers} \cup
           {[op |-> "Auth.all"], [op |-> "McpAuth.all"]} \cup
           {[op |-> "Auth.set", id |-> k, arg |-> v] :
                k \in Providers, v \in InfoValues} \cup
           {[op |-> "Auth.remove", id |-> k] : k \in Providers}

\* Auth.get, on the data that authGet or all() returned
InfoOf(data) ==
    IF data # NoValue /\ ValidInfo(data) THEN ParsedInfo(data) ELSE NoValue

\* an Auth call when isEnabled(): the MongoStorage call, up to ensureInit
AuthMongo(p, o) ==
    /\ isEnabled(uri)
    /\ EnsureInit(p, o)

\* the database call of an Auth call and what the call makes of its result
AuthCall(p) ==
    /\ pc[p] = "ready"
    /\ call[p] \in AuthOps
    /\ pc' = [pc EXCEPT ![p] = "idle"]
    /\ call' = [call EXCEPT ![p] = NoCall]
    /\ LET o == call[p]
           Result(out) == [op |-> o.op, proc |-> p, call |-> o,
                           backend |-> "mongo", out |-> out]
       IN  IF db = 0
           THEN /\ last' = Result(NotInitialized)
                /\ UNCHANGED sys
           ELSE CASE o.op = "Auth.get" ->
                       /\ last' = Result(Ok(InfoOf(authGet(sys, o.id))))
                       /\ UNCHANGED sys
                  [] o.op = "Auth.all" ->
                       /\ last' = Result(Ok(parseAuthEntries(authAll(sys))))
                       /\ UNCHANGED sys
                  [] o.op = "McpAuth.all" ->
                       /\ last' = Result(Ok(parseEntries(mcpAuthAll(sys))))
                       /\ UNCHANGED sys
                  [] o.op = "Auth.set" ->
                       /\ sys' = authSet(sys, o.id, o.arg)
                       /\ last' = Result(Done)
                  [] o.op = "Auth.remove" ->
                       /\ sys' = authRemove(sys, o.id)
                       /\ last' = Result(Done)
    /\ UNCHANGED <<client, db, initPromise, inits, waits, indexes>>
    /\ UNCHANGED connUnchanged

\* an Auth call when not isEnabled(), up to the end of its all(): get and
\* all return, set and remove go on to Bun.write with the data they read
AuthFile(p, o) ==
    /\ ~isEnabled(uri)
    /\ pc[p] = "idle"
    /\ LET Result(out) == [op |-> o.op, proc |-> p, call |-> o,
                           backend |-> "file", out |-> out]
           data == parseAuthEntries(FileEntries(fs.auth))
       IN  CASE o.op = "Auth.get" ->
                  /\ last' = Result(Ok(InfoOf(Lookup(data, o.id))))
                  /\ UNCHANGED <<pc, call, doc>>
             [] o.op = "Auth.all" ->
                  /\ last' = Result(Ok(data))
                  /\ UNCHANGED <<pc, call, doc>>
             [] o.op = "McpAuth.all" ->
                  /\ last' = Result(Ok(parseEntries(FileEntries(fs.mcp))))
                  /\ UNCHANGED <<pc, call, doc>>
             [] o.op \in {"Auth.set", "Auth.remove"} ->
                  /\ pc' = [pc EXCEPT ![p] = "fileWrite"]
                  /\ call' = [call EXCEPT ![p] = o]
                  /\ doc' = [doc EXCEPT ![p] = data]
                  /\ UNCHANGED last
    /\ UNCHANGED <<store, content, attempt, wrote, hist, client, db, initPromise,
                   inits, waits, indexes, sys, fs, imp, markWrites, uri>>

\* Bun.write(file, JSON.stringify(...)) and chmod of Auth.set and Auth.remove
AuthFileWrite(p) ==
    /\ pc[p] = "fileWrite"
    /\ call[p] \in AuthOps
    /\ LET o == call[p]
           data == IF o.op = "Auth.set" THEN SetEntry(doc[p], o.id, o.arg)
                   ELSE DeleteEntry(doc[p], o.id)
       IN  /\ fs' = [fs EXCEPT !.auth = Json(data)]
           /\ last' = [op |-> o.op, proc |-> p, call |-> o, backend |-> "file",
                       out |-> Done]
    /\ pc' = [pc EXCEPT ![p] = "idle"]
    /\ call' = [call EXCEPT ![p] = NoCall]
    /\ doc' = [doc EXCEPT ![p] = NoDoc]
    /\ UNCHANGED <<store, content, attempt, wrote, hist, client, db, initPromise,
                   inits, waits, indexes, sys, imp, markWrites, uri>>

\* process.env.OPENCODE_MONGODB_URI is set or deleted
SetEnv(u) ==
    /\ uri # u
    /\ uri' = u
    /\ UNCHANGED <<storageVars, client, db, initPromise, inits, waits, indexes,
                   sys, fs, imp, markWrites>>

(* McpAuth.  mcpAuthUpdateField and mcpAuthUnsetField, which the field
   updates call when isEnabled(), are atomic updates of one field of the
   document's data.  The environment variable does not change while a field
   update runs. *)

Servers == {"m", "n"}
TokenValues == {"t1", "t2"}
EntryValues == {[tokens |-> "t1"], [tokens |-> "t2", codeVerifier |-> "v1"]}

\* entry.field = value
SetField(entry, field, value) ==
    [f \in DOMAIN entry \cup {field} |-> IF f = field THEN value ELSE entry[f]]

\* delete entry.field
DeleteField(entry, field) == [f \in DOMAIN entry \ {field} |-> entry[f]]

\* updateOne({mcpName}, {$set: {["data." + field]: value}}, {upsert})
mcpAuthUpdateField(sy, mcpName, field, value) ==
    LET d == FindOne(sy["mcp_auth"], [mcpName |-> mcpName])
    IN  [sy EXCEPT !["mcp_auth"] =
            IF d = NoDoc
            THEN @ \cup {[mcpName |-> mcpName, data |-> SetField(NoFields, field, value)]}
            ELSE (@ \ {d}) \cup {[d EXCEPT !.data = SetField(@, field, value)]}]

\* updateOne({mcpName}, {$unset: {["data." + field]: ""}})
mcpAuthUnsetField(sy, mcpName, field) ==
    LET d == FindOne(sy["mcp_auth"], [mcpName |-> mcpName])
    IN  [sy EXCEPT !["mcp_auth"] =
            IF d = NoDoc THEN @
            ELSE (@ \ {d}) \cup {[d EXCEPT !.data = DeleteField(@, field)]}]

UpdateOps == {[op |-> "McpAuth.updateTokens", id |-> n, arg |-> t] :
                n \in Servers, t \in TokenValues} \cup
             {[op |-> "McpAuth.updateClientInfo", id |-> n, arg |-> "c1"] : n \in Servers} \cup
             {[op |-> "McpAuth.updateCodeVerifier", id |-> n, arg |-> "v1"] : n \in Servers} \cup
             {[op |-> "McpAuth.clearCodeVerifier", id |-> n] : n \in Servers}

McpOps == {[op |-> "McpAuth.get", id |-> n] : n \in Servers} \cup
          {[op |-> "McpAuth.set", id |-> n, arg |-> e] :
                n \in Servers, e \in EntryValues} \cup
          {[op |-> "McpAuth.remove", id |-> n] : n \in Servers} \cup
          UpdateOps

\* the field that a field update names
FieldOf(o) ==
    CASE o.op = "McpAuth.updateTokens" -> "tokens"
      [] o.op = "McpAuth.updateClientInfo" -> "clientInfo"
      [] o.op \in {"McpAuth.updateCodeVerifier", "McpAuth.clearCodeVerifier"} ->
            "codeVerifier"

\* McpAuth.get, on the data that mcpAuthGet returned
EntryOf(data) ==
    IF data # NoValue /\ ValidEntry(data) THEN ParsedEntry(data) ELSE NoValue

\* a McpAuth call when isEnabled(): the MongoStorage call, up to ensureInit
McpMongo(p, o) ==
    /\ isEnabled(uri)
    /\ EnsureInit(p, o)

\* the database call of a McpAuth call
McpCall(p) ==
    /\ pc[p] = "ready"
    /\ call[p] \in McpOps
    /\ pc' = [pc EXCEPT ![p] = "idle"]
    /\ call' = [call EXCEPT ![p] = NoCall]
    /\ LET o == call[p]
           Result(out) == [op |-> o.op, proc |-> p, call |-> o,
                           backend |-> "mongo", out |-> out]
       IN  IF db = 0
           THEN /\ last' = Result(NotInitialized)
                /\ UNCHANGED sys
           ELSE CASE o.op = "McpAuth.get" ->
                       /\ last' = Result(Ok(EntryOf(mcpAuthGet(sys, o.id))))
                       /\ UNCHANGED sys
                  [] o.op = "McpAuth.set" ->
                       /\ sys' = mcpAuthSet(sys, o.id, o.arg)
                       /\ last' = Result(Done)
                  [] o.op = "McpAuth.remove" ->
                       /\ sys' = mcpAuthRemove(sys, o.id)
                       /\ last' = Result(Done)
                  [] o.op = "McpAuth.clearCodeVerifier" ->
                       /\ sys' = mcpAuthUnsetField(sys, o.id, FieldOf(o))
                       /\ last' = Result(Done)
                  [] OTHER ->
                       /\ sys' = mcpAuthUpdateField(sys, o.id, FieldOf(o), o.arg)
                       /\ last' = Result(Done)
    /\ UNCHANGED <<client, db, initPromise, inits, waits, indexes>>
    /\ UNCHANGED connUnchanged

\* a McpAuth call when not isEnabled(), up to the end of its first all():
\* get returns; set and remove go on to Bun.write with the data they read;
\* a field update changes the entry it got and goes on to set(), and
\* clearCodeVerifier returns when there is no entry
McpFile(p, o) ==
    /\ ~isEnabled(uri)
    /\ pc[p] = "idle"
    /\ LET Result(out) == [op |-> o.op, proc |-> p, call |-> o,
                           backend |-> "file", out |-> out]
           data == parseEntries(FileEntries(fs.mcp))
           entry == Lookup(data, o.id)
           Goto(at, d, e) ==
                /\ pc' = [pc EXCEPT ![p] = at]
                /\ call' = [call EXCEPT ![p] = o]
                /\ doc' = [doc EXCEPT ![p] = d]
                /\ content' = [content EXCEPT ![p] = e]
                /\ UNCHANGED last
       IN  CASE o.op = "McpAuth.get" ->
                  /\ last' = Result(Ok(entry))
                  /\ UNCHANGED <<pc, call, doc, content>>
             [] o.op = "McpAuth.set" -> Goto("fileWrite", data, o.arg)
             [] o.op = "McpAuth.remove" -> Goto("fileWrite", data, << >>)
             [] o.op = "McpAuth.clearCodeVerifier" ->
                  IF entry = NoValue
                  THEN /\ last' = Result(Done)
                       /\ UNCHANGED <<pc, call, doc, content>>
                  ELSE Goto("fileSet", NoDoc, DeleteField(entry, FieldOf(o)))
             [] OTHER ->
                  Goto("fileSet", NoDoc,
                       SetField(IF entry = NoValue THEN NoFields ELSE entry,
                                FieldOf(o), o.arg))
    /\ UNCHANGED <<store, attempt, wrote, hist, client, db, initPromise,
                   inits, waits, indexes, sys, fs, imp, markWrites, uri>>

\* set(mcpName, entry) of a field update, up to the end of its all()
McpFileSet(p) ==
    /\ pc[p] = "fileSet"
    /\ ~isEnabled(uri)
    /\ pc' = [pc EXCEPT ![p] = "fileWrite"]
    /\ doc' = [doc EXCEPT ![p] = parseEntries(FileEntries(fs.mcp))]
    /\ UNCHANGED <<store, call, content, attempt, wrote, last, hist, client, db,
                   initPromise, inits, waits, indexes, sys, fs, imp, markWrites, uri>>

\* Bun.write(file, JSON.stringify(...)) and chmod of McpAuth.set and remove
McpFileWrite(p) ==
    /\ pc[p] = "fileWrite"
    /\ call[p] \in McpOps
    /\ LET o == call[p]
           data == IF o.op = "McpAuth.remove" THEN DeleteEntry(doc[p], o.id)
                   ELSE SetEntry(doc[p], o.id, content[p])
       IN  /\ fs' = [fs EXCEPT !.mcp = Json(data)]
           /\ last' = [op |-> o.op, proc |-> p, call |-> o, backend |-> "file",
                       out |-> Done]
    /\ pc' = [pc EXCEPT ![p] = "idle"]
    /\ call' = [call EXCEPT ![p] = NoCall]
    /\ doc' = [doc EXCEPT ![p] = NoDoc]
    /\ content' = [content EXCEPT ![p] = << >>]
    /\ UNCHANGED <<store, attempt, wrote, hist, client, db, initPromise,
                   inits, waits, indexes, sys, imp, markWrites, uri>>

----------------------------------------------------------------------------
(* list: find(query).sort({_id: 1}), extractKey per document, result.sort().
   Array.prototype.sort without comparator orders the keys by their string
   form, the segments joined by ",", compared by UTF-16 code units.  The
   keys of one result share their first segment, so the order is that of
   the remaining segments. *)

\* the keys of the listing specification
ListSessionPS == [type |-> "session", ids |-> << <<"p">>, <<"s">> >>]
ListSessionQT == [type |-> "session", ids |-> << <<"p", "-">>, <<"t">> >>]
ListSessionP  == [type |-> "session", ids |-> << <<"p">> >>]
ListMessage   == [type |-> "message", ids |-> << <<"s">>, <<"m">> >>]
ListTodoTU    == [type |-> "todo", ids |-> << <<"t">>, <<"u">> >>]
ListTodoT     == [type |-> "todo", ids |-> << <<"t", "-">> >>]
ListKeys == {ListSessionPS, ListSessionQT, ListSessionP, ListMessage,
             ListTodoTU, ListTodoT}

\* the prefixes given to list
Prefixes ==
    {[type |-> t, ids |-> << >>] : t \in {"session", "message", "todo"}}
    \cup {[type |-> "session", ids |-> i] :
            i \in {<< <<"p">> >>, << <<"p", "-">> >>, << <<"p">>, <<"s">> >>}}
    \cup {[type |-> "message", ids |-> << <<"s">> >>],
          [type |-> "todo", ids |-> << <<"t">> >>],
          [type |-> "todo", ids |-> << <<"t">>, <<"u">> >>]}

\* the UTF-16 code unit of a character
CharCode(c) ==
    CASE c = "," -> 44
      [] c = "-" -> 45
      [] c = "/" -> 47
      [] c = "m" -> 109
      [] c = "p" -> 112
      [] c = "s" -> 115
      [] c = "t" -> 116
      [] c = "u" -> 117

\* a < b for strings
RECURSIVE StrLess(_, _)
StrLess(a, b) ==
    IF Len(b) = 0 THEN FALSE
    ELSE IF Len(a) = 0 THEN TRUE
    ELSE IF a[1] = b[1] THEN StrLess(Tail(a), Tail(b))
    ELSE CharCode(a[1]) < CharCode(b[1])

\* str.split("/")
RECURSIVE Split(_)
Split(str) ==
    IF \E i \in DOMAIN str : str[i] = Slash
    THEN LET i == CHOOSE j \in DOMAIN str :
                    str[j] = Slash /\ \A h \in 1..(j - 1) : str[h] # Slash
         IN  <<SubSeq(str, 1, i - 1)>> \o Split(SubSeq(str, i + 1, Len(str)))
    ELSE <<str>>

\* doc.field, undefined when the document has no such field
Field(d, f) == IF f \in DOMAIN d THEN d[f] ELSE Undefined

extractKey(type, d) ==
    CASE type = "session" ->
            [type |-> type, ids |-> <<Field(d, "projectId"), Field(d, "sessionId")>>]
      [] type = "message" ->
            [type |-> type, ids |-> <<Field(d, "sessionId"), Field(d, "messageId")>>]
      [] type = "part" ->
            [type |-> type, ids |-> <<Field(d, "messageId"), Field(d, "partId")>>]
      [] type = "project" ->
            [type |-> type, ids |-> <<Field(d, "projectId")>>]
      [] type = "share" ->
            [type |-> type, ids |-> <<Field(d, "shareId")>>]
      [] type = "session_diff" ->
            [type |-> type, ids |-> <<Field(d, "sessionId")>>]
      [] OTHER ->
            [type |-> type, ids |-> Split(d._id)]

\* the string form of the segments after the first: join(","), an undefined
\* segment gives the empty string
RECURSIVE KeyString(_)
KeyString(ids) ==
    LET seg(x) == IF x = Undefined THEN << >> ELSE x
    IN  IF Len(ids) = 0 THEN << >>
        ELSE IF Len(ids) = 1 THEN seg(ids[1])
        ELSE seg(ids[1]) \o <<",">> \o KeyString(Tail(ids))

\* cursor.sort({_id: 1}).toArray()
RECURSIVE SortById(_)
SortById(docs) ==
    IF docs = {} THEN << >>
    ELSE LET first == CHOOSE d \in docs :
                        \A e \in docs \ {d} : StrLess(d._id, e._id)
         IN  <<first>> \o SortById(docs \ {first})

\* x inserted behind the elements that are not greater
RECURSIVE Insert(_, _)
Insert(x, sorted) ==
    IF Len(sorted) = 0 THEN <<x>>
    ELSE IF StrLess(KeyString(x.ids), KeyString(sorted[1].ids))
         THEN <<x>> \o sorted
         ELSE <<sorted[1]>> \o Insert(x, Tail(sorted))

RECURSIVE ArraySortFrom(_, _)
ArraySortFrom(result, sorted) ==
    IF Len(result) = 0 THEN sorted
    ELSE ArraySortFrom(Tail(result), Insert(result[1], sorted))

\* variant: the result is left in the order of the cursor
ArraySort_CursorOrder(result) == result

\* result.sort()
ArraySort(result) == ArraySortFrom(result, << >>)

\* variant: the prefix ids are not turned into a filter
listQuery_All(type, ids) == NoFields

\* ids.length > 0 ? buildQuery(type, ids) : {}
listQuery(type, ids) == IF Len(ids) > 0 THEN buildQuery(type, ids) ELSE NoFields

list(st, prefix) ==
    LET type == prefix.type
        ids == prefix.ids
        coll == st[CollectionName(type)]
        query == listQuery(type, ids)
        docs == SortById({d \in coll : Matches(d, query)})
        result == [i \in DOMAIN docs |-> extractKey(type, docs[i])]
    IN  ArraySort(result)

List(p, prefix) ==
    /\ pc[p] = "idle"
    /\ last' = [op |-> "list", proc |-> p, prefix |-> prefix,
                out |-> Ok(list(store, prefix))]
    /\ UNCHANGED <<store, pc, call, doc, content, attempt, wrote, hist>>
    /\ UNCHANGED extVars

----------------------------------------------------------------------------
(* Specifications *)

EmptyStore == [c \in Collections |-> {}]

Init ==
    /\ store = EmptyStore
    /\ pc = [p \in Procs |-> "idle"]
    /\ call = [p \in Procs |-> NoCall]
    /\ doc = [p \in Procs |-> NoDoc]
    /\ content = [p \in Procs |-> << >>]
    /\ attempt = [p \in Procs |-> 0]
    /\ wrote = [p \in Procs |-> FALSE]
    /\ last = NoLast
    /\ hist = [k \in Keys |-> NoHist]
    /\ Established

\* two callers, every operation, one contended key
Next ==
    \/ \E p \in Pair : Read(p, HotKey)
    \/ \E p \in Pair, c \in WriteVals : Write(p, HotKey, c)
    \/ \E p \in Pair : Remove(p, HotKey)
    \/ \E p \in Pair, m \in Mutators : UpdateBegin(p, HotKey, m)
    \/ \E p \in Pair : UpdateFind(p)
    \/ \E p \in Pair : UpdateCas(p)

Spec == Init /\ [][Next]_vars

\* a caller that updates the contended key while another caller writes,
\* removes and updates it; every awaited findOne and updateOne of a running
\* update resolves and its continuation runs
NextFair ==
    \/ \E p \in Pair, m \in Mutators : UpdateBegin(p, HotKey, m)
    \/ \E p \in Pair : UpdateFind(p)
    \/ \E p \in Pair : UpdateCas(p)
    \/ \E p \in Pair \ Single : Write(p, HotKey, << >>)
    \/ \E p \in Pair \ Single : Remove(p, HotKey)

SpecFair ==
    /\ Init /\ [][NextFair]_vars
    /\ \A p \in Pair : WF_vars(UpdateFind(p)) /\ WF_vars(UpdateCas(p))

\* three callers that only update one existing key
InitUpd ==
    /\ \E c \in WriteVals :
          /\ store = write(EmptyStore, HotKey, c)
          /\ hist = [k \in Keys |-> IF k = HotKey
                                    THEN [base |-> c, commits |-> << >>,
                                          removed |-> FALSE, updates |-> 0,
                                          stale |-> {}]
                                    ELSE NoHist]
    /\ pc = [p \in Procs |-> "idle"]
    /\ call = [p \in Procs |-> NoCall]
    /\ doc = [p \in Procs |-> NoDoc]
    /\ content = [p \in Procs |-> << >>]
    /\ attempt = [p \in Procs |-> 0]
    /\ wrote = [p \in Procs |-> FALSE]
    /\ last = NoLast
    /\ Established

NextUpd ==
    \/ \E p \in Procs, m \in Mutators : UpdateBegin(p, HotKey, m)
    \/ \E p \in Procs : UpdateFind(p)
    \/ \E p \in Procs : UpdateCas(p)

SpecUpd == InitUpd /\ [][NextUpd]_vars

\* one caller, every operation, keys of known and unknown entity types
NextKV ==
    \/ \E p \in Single, k \in Keys : Read(p, k)
    \/ \E p \in Single, k \in Keys, c \in WriteVals : Write(p, k, c)
    \/ \E p \in Single, k \in Keys : Remove(p, k)
    \/ \E p \in Single, k \in Keys, m \in Mutators : UpdateBegin(p, k, m)
    \/ \E p \in Single : UpdateFind(p)
    \/ \E p \in Single : UpdateCas(p)

SpecKV == Init /\ [][NextKV]_vars

\* one caller reads, writes and removes keys whose type or segments differ
InitIndep ==
    /\ store = EmptyStore
    /\ pc = [p \in Procs |-> "idle"]
    /\ call = [p \in Procs |-> NoCall]
    /\ doc = [p \in Procs |-> NoDoc]
    /\ content = [p \in Procs |-> << >>]
    /\ attempt = [p \in Procs |-> 0]
    /\ wrote = [p \in Procs |-> FALSE]
    /\ last = NoLast
    /\ hist = [k \in IndepKeys |-> NoHist]
    /\ Established

NextIndep ==
    \/ \E p \in Single, k \in IndepKeys : Read(p, k)
    \/ \E p \in Single, k \in IndepKeys, c \in WriteVals : Write(p, k, c)
    \/ \E p \in Single, k \in IndepKeys : Remove(p, k)

SpecIndep == InitIndep /\ [][NextIndep]_vars

\* importFromFilesystem by one caller, any of its database writes may fail
NextImp ==
    \/ \E p \in Single : ImportBegin(p)
    \/ \E p \in Single : \E f \in imp[p].files : \E ok \in BOOLEAN : ImportFile(p, f, ok)
    \/ \E p \in Single : ImportAuthRead(p)
    \/ \E p \in Single : \E ok \in BOOLEAN : ImportAuthSet(p, ok)
    \/ \E p \in Single : ImportMcpRead(p)
    \/ \E p \in Single : \E ok \in BOOLEAN : ImportMcpSet(p, ok)
    \/ \E p \in Single : \E ok \in BOOLEAN : ImportConfig(p, ok)
    \/ \E p \in Single : ImportMark(p)
    \/ \E f \in FsChoices : ChangeFs(f)

SpecImp == Init /\ [][NextImp]_vars

\* importFromFilesystem by two concurrent callers, no database call fails
NextImpPair ==
    \/ \E p \in Pair : ImportBegin(p)
    \/ \E p \in Pair : \E f \in imp[p].files : ImportFile(p, f, TRUE)
    \/ \E p \in Pair : ImportAuthRead(p)
    \/ \E p \in Pair : ImportAuthSet(p, TRUE)
    \/ \E p \in Pair : ImportMcpRead(p)
    \/ \E p \in Pair : ImportMcpSet(p, TRUE)
    \/ \E p \in Pair : ImportConfig(p, TRUE)
    \/ \E p \in Pair : ImportMark(p)
    \/ \E f \in FsChoices : ChangeFs(f)

SpecImpPair == Init /\ [][NextImpPair]_vars

\* one caller writes, removes and lists
InitList ==
    /\ store = EmptyStore
    /\ pc = [p \in Procs |-> "idle"]
    /\ call = [p \in Procs |-> NoCall]
    /\ doc = [p \in Procs |-> NoDoc]
    /\ content = [p \in Procs |-> << >>]
    /\ attempt = [p \in Procs |-> 0]
    /\ wrote = [p \in Procs |-> FALSE]
    /\ last = NoLast
    /\ hist = [k \in ListKeys |-> NoHist]
    /\ Established

NextList ==
    \/ \E p \in Single : \E k \in ListKeys : \E c \in WriteVals : Write(p, k, c)
    \/ \E p \in Single : \E k \in ListKeys : Remove(p, k)
    \/ \E p \in Single : \E prefix \in Prefixes : List(p, prefix)

SpecList == InitList /\ [][NextList]_vars

\* no connection yet, an empty database; the callers of one process call
\* configGet and configSet
InitConn ==
    /\ store = EmptyStore
    /\ pc = [p \in Procs |-> "idle"]
    /\ call = [p \in Procs |-> NoCall]
    /\ doc = [p \in Procs |-> NoDoc]
    /\ content = [p \in Procs |-> << >>]
    /\ attempt = [p \in Procs |-> 0]
    /\ wrote = [p \in Procs |-> FALSE]
    /\ last = NoLast
    /\ hist = [k \in Keys |-> NoHist]
    /\ client = 0
    /\ db = 0
    /\ initPromise = 0
    /\ inits = << >>
    /\ waits = [p \in Procs |-> 0]
    /\ indexes = {}
    /\ sys = EmptySys
    /\ fs = EmptyFs
    /\ imp = [p \in Procs |-> NoImport]
    /\ markWrites = 0
    /\ uri = TRUE

NextConn ==
    \/ \E p \in Procs : \E o \in ConfigOps : EnsureInit(p, o)
    \/ \E i \in DOMAIN inits : ConnectOk(i)
    \/ \E i \in DOMAIN inits : ConnectFail(i)
    \/ \E i \in DOMAIN inits : BootstrapIndex(i)
    \/ \E i \in DOMAIN inits : BootstrapConfigFind(i)
    \/ \E i \in DOMAIN inits : BootstrapConfigInsert(i)
    \/ \E p \in Procs : InitSettled(p)
    \/ \E p \in Procs : ConfigCall(p)

SpecConn == InitConn /\ [][NextConn]_vars

\* a process without connection whose caller imports, before or after its
\* first configGet or configSet
NextFirst ==
    \/ \E p \in Single : \E o \in ConfigOps : EnsureInit(p, o)
    \/ \E i \in DOMAIN inits : ConnectOk(i)
    \/ \E i \in DOMAIN inits : ConnectFail(i)
    \/ \E i \in DOMAIN inits : BootstrapIndex(i)
    \/ \E i \in DOMAIN inits : BootstrapConfigFind(i)
    \/ \E i \in DOMAIN inits : BootstrapConfigInsert(i)
    \/ \E p \in Single : InitSettled(p)
    \/ \E p \in Single : ConfigCall(p)
    \/ \E p \in Single : ImportBegin(p)
    \/ \E p \in Single : \E f \in imp[p].files : ImportFile(p, f, TRUE)
    \/ \E p \in Single : ImportAuthRead(p)
    \/ \E p \in Single : ImportAuthSet(p, TRUE)
    \/ \E p \in Single : ImportMcpRead(p)
    \/ \E p \in Single : ImportMcpSet(p, TRUE)
    \/ \E p \in Single : ImportConfig(p, TRUE)
    \/ \E p \in Single : ImportMark(p)
    \/ \E f \in FsChoices : ChangeFs(f)

SpecFirst == InitConn /\ [][NextFirst]_vars

\* a process whose caller uses Auth and McpAuth.all while the environment
\* variable is set and deleted; the files and the database are those that
\* earlier processes left
InitAuth ==
    /\ store = EmptyStore
    /\ pc = [p \in Procs |-> "idle"]
    /\ call = [p \in Procs |-> NoCall]
    /\ doc = [p \in Procs |-> NoDoc]
    /\ content = [p \in Procs |-> << >>]
    /\ attempt = [p \in Procs |-> 0]
    /\ wrote = [p \in Procs |-> FALSE]
    /\ last = NoLast
    /\ hist = [k \in Keys |-> NoHist]
    /\ client = 0
    /\ db = 0
    /\ initPromise = 0
    /\ inits = << >>
    /\ waits = [p \in Procs |-> 0]
    /\ indexes = {}
    /\ sys \in AuthSysChoices
    /\ fs \in AuthFsChoices
    /\ imp = [p \in Procs |-> NoImport]
    /\ markWrites = 0
    /\ uri \in BOOLEAN

NextAuth ==
    \/ \E p \in Single : \E o \in AuthOps : AuthMongo(p, o)
    \/ \E p \in Single : \E o \in AuthOps : AuthFile(p, o)
    \/ \E p \in Single : AuthFileWrite(p)
    \/ \E i \in DOMAIN inits : ConnectOk(i)
    \/ \E i \in DOMAIN inits : ConnectFail(i)
    \/ \E i \in DOMAIN inits : BootstrapIndex(i)
    \/ \E i \in DOMAIN inits : BootstrapConfigFind(i)
    \/ \E i \in DOMAIN inits : BootstrapConfigInsert(i)
    \/ \E p \in Single : InitSettled(p)
    \/ \E p \in Single : AuthCall(p)
    \/ \E u \in BOOLEAN : SetEnv(u)

SpecAuth == InitAuth /\ [][NextAuth]_vars

\* two callers of one process that set and remove providers in auth.json
InitFile == InitAuth /\ uri = FALSE

NextFile ==
    \/ \E p \in Pair : \E o \in {x \in AuthOps : x.op \in {"Auth.set", "Auth.remove"}} :
            AuthFile(p, o)
    \/ \E p \in Pair : AuthFileWrite(p)

SpecFile == InitFile /\ [][NextFile]_vars

\* a process whose caller uses McpAuth, on the database it is connected to
\* or, without the environment variable, on mcp-auth.json
InitMcp ==
    /\ store = EmptyStore
    /\ pc = [p \in Procs |-> "idle"]
    /\ call = [p \in Procs |-> NoCall]
    /\ doc = [p \in Procs |-> NoDoc]
    /\ content = [p \in Procs |-> << >>]
    /\ attempt = [p \in Procs |-> 0]
    /\ wrote = [p \in Procs |-> FALSE]
    /\ last = NoLast
    /\ hist = [k \in Keys |-> NoHist]
    /\ uri \in BOOLEAN
    /\ client = IF uri THEN 1 ELSE 0
    /\ db = client
    /\ initPromise = client
    /\ inits = IF uri THEN <<InitDone>> ELSE << >>
    /\ waits = [p \in Procs |-> 0]
    /\ indexes = IF uri THEN {BootstrapIndexes[i] : i \in DOMAIN BootstrapIndexes}
                 ELSE {}
    /\ \E c \in AuthSysChoices :
            sys = IF uri THEN [c EXCEPT !["config"] = {DefaultConfig}] ELSE c
    /\ fs \in AuthFsChoices
    /\ imp = [p \in Procs |-> NoImport]
    /\ markWrites = 0

NextMcp ==
    \/ \E p \in Single : \E o \in McpOps : McpMongo(p, o)
    \/ \E p \in Single : McpCall(p)
    \/ \E p \in Single : \E o \in McpOps : McpFile(p, o)
    \/ \E p \in Single : McpFileSet(p)
    \/ \E p \in Single : McpFileWrite(p)

SpecMcp == InitMcp /\ [][NextMcp]_vars

\* the life of the connection: two callers of one process call configGet,
\* configSet and close
NextLife ==
    \/ \E p \in Pair : \E o \in ConfigOps : EnsureInit(p, o)
    \/ \E i \in DOMAIN inits : ConnectOk(i)
    \/ \E i \in DOMAIN inits : ConnectFail(i)
    \/ \E i \in DOMAIN inits : BootstrapIndex(i)
    \/ \E i \in DOMAIN inits : BootstrapConfigFind(i)
    \/ \E i \in DOMAIN inits : BootstrapConfigInsert(i)
    \/ \E p \in Pair : InitSettled(p)
    \/ \E p \in Pair : ConfigCall(p)
    \/ \E p \in Pair : CloseBegin(p)
    \/ \E p \in Pair : CloseEnd(p)

SpecLife == InitConn /\ [][NextLife]_vars

\* two processes on one empty database: this one, whose caller uses the
\* config, and another one that initializes
NextTwo ==
    \/ \E p \in Single : \E o \in ConfigOps : EnsureInit(p, o)
    \/ PeerInit
    \/ \E i \in DOMAIN inits : ConnectOk(i)
    \/ \E i \in DOMAIN inits : ConnectFail(i)
    \/ \E i \in DOMAIN inits : BootstrapIndex(i)
    \/ \E i \in DOMAIN inits : BootstrapConfigFind(i)
    \/ \E i \in DOMAIN inits : BootstrapConfigInsert(i)
    \/ \E p \in Single : InitSettled(p)
    \/ \E p \in Single : ConfigCall(p)

SpecTwo == InitConn /\ [][NextTwo]_vars

----------------------------------------------------------------------------
(* Properties *)

\* the step in which caller p's conditional write executes
CasStep(p) == pc[p] = "cas" /\ pc'[p] # "cas"

\* the step in which caller p's findOne executes
FindStep(p) == pc[p] = "find" /\ pc'[p] # "find"

\* the commits recorded for the contended key at version v
WinnersAt(v) ==
    {i \in DOMAIN hist[HotKey].commits : hist[HotKey].commits[i].ver = v}

\* C1: when only update calls run on an existing key, the conditional write
\* of a caller that read version v matches exactly when no other conditional
\* write at version v has matched before; a later one at v matches zero
\* documents and changes nothing, and the retry of the loser reads a document
\* committed after the winner's write (the winner's payload and version v + 1
\* when nobody else committed since) and applies its mutate function to that.
C1_OneWinnerPerVersion ==
    [][\A p \in Procs :
        /\ CasStep(p) =>
              LET v == currentVersion(doc[p])
              IN  IF WinnersAt(v) = {}
                  THEN /\ Stored(store', HotKey).version = v + 1
                       /\ Stored(store', HotKey).data = content[p]
                       /\ pc'[p] = "idle" /\ last'.out = Ok(content[p])
                  ELSE /\ store' = store
                       /\ pc'[p] = "find" \/ last'.out = Conflict
        /\ (FindStep(p) /\ attempt[p] > 0) =>
              LET v == currentVersion(doc[p])
                  d == doc'[p]
              IN  /\ pc'[p] = "cas"
                  /\ d = Stored(store, HotKey)
                  /\ d.version > v
                  /\ \E i \in WinnersAt(v) :
                        LET w == hist[HotKey].commits[i]
                        IN  /\ w.by # p
                            /\ d.version = v + 1 => d.data = w.data
                  /\ content'[p] = Mutate(call[p].fn, d.data)
    ]_vars

\* a loser has read the winner's commit on its retry
C1_Witness ==
    \E p \in Procs :
        /\ pc[p] = "cas" /\ attempt[p] = 1
        /\ doc[p].version = 2
        /\ Len(hist[HotKey].commits) = 1
        /\ hist[HotKey].commits[1].by # p
        /\ hist[HotKey].commits[1].ver = 1
        /\ doc[p].data = hist[HotKey].commits[1].data

\* the mutate functions of the commits of a key, in the order of the commits
CommittedFns(k) == [i \in DOMAIN hist[k].commits |-> hist[k].commits[i].fn]

\* C2: when only update calls run on an existing key, the stored payload is
\* the payload the key started with, mutated by the mutate functions of
\* exactly the update calls that returned successfully, in the order of their
\* conditional writes, and the version counts them.
C2_NoLostUpdate ==
    LET d == Stored(store, HotKey)
    IN  /\ d # NoDoc
        /\ d.data = MutateAll(CommittedFns(HotKey), hist[HotKey].base)
        /\ d.version = 1 + Len(hist[HotKey].commits)

\* three callers have committed, with different mutate functions, the
\* later ones after losing a conditional write
C2_Witness ==
    /\ \A p \in Procs : pc[p] = "idle"
    /\ Len(hist[HotKey].commits) = 3
    /\ hist[HotKey].commits[1].fn # hist[HotKey].commits[2].fn
    /\ {hist[HotKey].commits[i].by : i \in 1..3} = Procs
    /\ last.op = "update" /\ last.finds = 3

\* caller p's update returns its payload in this step
Succeeds(p) == pc'[p] = "idle" /\ last'.op = "update" /\ last'.out.status = "ok"

\* caller p's update throws in this step
Fails(p) == pc'[p] = "idle" /\ last'.op = "update" /\ last'.out.status = "error"

\* C3: whenever an update call returns successfully, the payload it
\* committed is its mutate function applied to the payload that was stored
\* immediately before its conditional write, whatever write, remove and
\* update calls of other callers ran between its read and that write.
C3_CommitsOntoLatest ==
    [][\A p \in Procs :
        (CasStep(p) /\ Succeeds(p)) =>
            LET before == Stored(store, call[p].key)
                after  == Stored(store', call[p].key)
            IN  /\ before # NoDoc
                /\ after # NoDoc
                /\ after.data = Mutate(call[p].fn, before.data)
    ]_vars

\* C4: an update call makes at most 3 attempts, each one findOne followed by
\* at most one conditional write; a call whose 3 conditional writes all
\* matched zero documents fails with the conflict error (an error without
\* ENOENT code) having changed nothing, and no call fails that way earlier.
C4_AtMostThreeAttempts ==
    /\ \A p \in Procs : attempt[p] < 3
    /\ last.op = "update" =>
          /\ last.finds <= 3
          /\ last.cass <= last.finds /\ last.finds <= last.cass + 1
          /\ (last.out.status = "error" /\ last.out.code # "ENOENT")
                <=> (last.cass = 3 /\ last.out.status # "ok")
          /\ (last.out.status = "error" /\ last.out.code # "ENOENT")
                => (last.finds = 3 /\ ~last.wrote)

\* an update has failed with the conflict error and the document is there
C4_Witness ==
    /\ last.op = "update"
    /\ last.out.status = "error" /\ last.out.code = "none"
    /\ last.cass = 3
    /\ Stored(store, last.key) # NoDoc

\* C5: in every step, the version of a stored document changes only in a
\* matching conditional write of update, and then by exactly +1; every other
\* step (write on the existing document, read, a conditional write that
\* matched nothing, a step on another key) leaves it unchanged; the version
\* of a document never decreases and a new document starts at version 1.
C5_VersionSteps ==
    [][\A k \in Keys :
        LET d == Stored(store, k)
            e == Stored(store', k)
        IN  /\ (d # NoDoc /\ e # NoDoc /\ e.version # d.version) =>
                  /\ e.version = d.version + 1
                  /\ \E p \in Procs :
                        CasStep(p) /\ Succeeds(p) /\ call[p].key = k
            /\ (d = NoDoc /\ e # NoDoc) => e.version = 1
    ]_vars

\* a write has replaced the payload of a document at version 2
C5_Witness ==
    /\ last.op = "write"
    /\ Stored(store, last.key) # NoDoc
    /\ Stored(store, last.key).version = 2
    /\ Stored(store, last.key).data = last.arg

\* C6: an update call that fails, with NotFound or with the conflict error,
\* has changed the store in none of its steps: a conditional write that
\* matched nothing and the failing step itself leave every document as it was.
C6_FailedUpdateWritesNothing ==
    [][\A p \in Procs :
        /\ (CasStep(p) /\ ~Succeeds(p)) => store' = store
        /\ ((CasStep(p) \/ FindStep(p)) /\ Fails(p)) =>
              (store' = store /\ ~last'.wrote)
    ]_vars

\* an update failed with NotFound in its second attempt, after a
\* conditional write that matched nothing
C6_Witness ==
    /\ last.op = "update"
    /\ last.out.status = "error" /\ last.out.code = "ENOENT"
    /\ last.finds = 2 /\ last.cass = 1
    /\ Stored(store, last.key) = NoDoc

\* C7: an update whose findOne finds no document for the key fails in that
\* step with an error of code ENOENT and writes nothing: no document is
\* created and none is changed.
C7_UpdateMissingKey ==
    [][\A p \in Procs :
        (FindStep(p) /\ Stored(store, call[p].key) = NoDoc) =>
            /\ Fails(p)
            /\ last'.proc = p /\ last'.key = call[p].key
            /\ last'.out.code = "ENOENT"
            /\ store' = store
    ]_vars

\* an update on a key that was never written has failed at its first findOne
C7_Witness ==
    /\ last.op = "update"
    /\ last.out.status = "error" /\ last.out.code = "ENOENT"
    /\ last.finds = 1
    /\ hist[last.key] = NoHist
    /\ store = EmptyStore

\* C8: a read of key K that directly follows a write of record R to K
\* returns exactly R, no document field around it, for keys of known and of
\* unknown entity types, whether or not K had a document before the write.
C8_WriteReadRoundTrip ==
    [][\A p \in Procs, k \in Keys :
        (last.op = "write" /\ last.key = k /\ Read(p, k)) =>
            last'.out = Ok(last.arg)
    ]_vars

\* a key of an unknown entity type was written, updated, written again
\* and then read
C8_Witness ==
    /\ last.op = "read"
    /\ last.key = KeyTodo
    /\ KeyTodo.type \notin KnownTypes
    /\ last.out = Ok(<<0>>)
    /\ Stored(store, KeyTodo).version = 2

\* C9: a write step leaves a document with the given payload; its version
\* is 1 when the key had no document, and the version the document had
\* before the write, whatever it was, when it existed.
C9_WriteKeepsVersion ==
    [][\A p \in Procs, k \in Keys, c \in WriteVals :
        Write(p, k, c) =>
            LET d == Stored(store, k)
                e == Stored(store', k)
            IN  /\ e # NoDoc
                /\ e.data = c
                /\ d = NoDoc => e.version = 1
                /\ d # NoDoc => e.version = d.version
    ]_vars

\* a write has replaced the payload of a document at version 3
C9_Witness ==
    /\ last.op = "write"
    /\ last.arg = <<0>>
    /\ Stored(store, last.key) # NoDoc
    /\ Stored(store, last.key).version = 3
    /\ Stored(store, last.key).data = <<0>>

\* C10: remove on a key without document returns and changes nothing; read
\* on a key without document fails with code ENOENT; after a remove of K the
\* key has no document and every read of K fails with ENOENT until a write
\* of K, the only step that gives a key a document.
C10_RemoveAndRead ==
    [][\A k \in Keys :
        LET d == Stored(store, k)
            e == Stored(store', k)
            returns(op) == last' # last /\ last'.op = op /\ last'.key = k
        IN  /\ (returns("remove") /\ d = NoDoc) =>
                  (store' = store /\ last'.out = [status |-> "ok"])
            /\ returns("remove") =>
                  (e = NoDoc /\ last'.out.status = "ok")
            /\ (returns("read") /\ (d = NoDoc \/ hist[k].removed)) =>
                  (last'.out.status = "error" /\ last'.out.code = "ENOENT")
            /\ (d = NoDoc /\ e # NoDoc) => returns("write")
    ]_vars

\* a key that was written and then removed has been read
C10_Witness ==
    /\ last.op = "read"
    /\ hist[last.key].removed
    /\ last.out.status = "error" /\ last.out.code = "ENOENT"

----------------------------------------------------------------------------
(* Connection and config store *)

\* C11: whatever callers arrive before a connection exists, one client is
\* constructed and one connect call is made, every waiting caller awaits
\* that one attempt, and there is never more than one open connection
C11_OneConnectionAttempt ==
    /\ Len(inits) <= 1
    /\ Cardinality(OpenClients) <= 1
    /\ \A p \in Procs : pc[p] = "init" => waits[p] = 1 /\ initPromise = 1

C11_Witness ==
    /\ Cardinality({p \in Procs : pc[p] = "init"}) >= 2
    /\ Len(inits) = 1
    /\ inits[1].at = "connect"

\* a step in which a call of op returns without an error
Returns(op) == last' # last /\ last'.op = op /\ last'.out.status = "ok"

Bootstrapped == \E i \in DOMAIN inits : inits[i].at = "done"

\* C19: a configGet that follows a completed configSet(C) returns exactly C;
\* a configGet after bootstrap, before any call has completed, returns the
\* default payload and nothing else
C19_ConfigRoundTrip ==
    [][Returns("configGet") =>
        /\ (last.op = "configSet" /\ last.out = Done
                => last'.out = Ok(last.arg))
        /\ (last = NoLast /\ Bootstrapped => last'.out = Ok(DefaultData))]_vars

C19_Witness ==
    /\ last.op = "configGet"
    /\ last.out = Ok([theme |-> 2, model |-> 1])

\* C20: configSet(C) leaves one config document, {_id: "default", data: C},
\* with no key of C at its top level, and touches no other collection
C20_ConfigSetWritesPayloadOnly ==
    [][Returns("configSet") =>
        /\ sys'["config"] = {[_id |-> "default", data |-> last'.arg]}
        /\ \A c \in SysCollections \ {"config"} : sys'[c] = sys[c]
        /\ store' = store]_vars

C20_Witness ==
    /\ last.op = "configSet"
    /\ last.out = Done
    /\ sys["config"] = {[_id |-> "default", data |-> [theme |-> 2, model |-> 1]]}
    /\ Bootstrapped

----------------------------------------------------------------------------
(* Import *)

\* C12: the import marker is written at most once, and an import that
\* starts when the marker exists returns without importing anything
C12_MarkerWrittenOnce ==
    /\ markWrites <= 1
    /\ \A p \in Procs : pc[p] = "import" /\ imp[p].tried # {} => markWrites = 0

\* C13: an import that starts after an import has completed returns at
\* once: no collection and no marker field changes, whatever the files are
C13_SecondImportNoOp ==
    [][\A p \in Procs : markWrites >= 1 /\ ImportBegin(p) =>
        /\ pc'[p] = "idle"
        /\ last'.out = Skipped
        /\ store' = store
        /\ sys' = sys
        /\ markWrites' = markWrites]_vars

C13_Witness ==
    /\ last.op = "import"
    /\ last.out = Skipped
    /\ markWrites = 1
    /\ fs = FsB
    /\ sys["auth"] # {}

\* a step in which an import writes the marker and returns
ImportCompletes == last' # last /\ last'.op = "import" /\ last'.out = Done

\* the entries of auth.json or mcp-auth.json
Entries(x) == IF Parseable(x) THEN {x.json[i] : i \in DOMAIN x.json} ELSE {}

\* C14: when an import completes, it has tried to import every parseable
\* storage file, every auth entry and every MCP-auth entry, whichever of
\* the other items failed
C14_FailureConfinedToItem ==
    [][ImportCompletes =>
        /\ \A f \in VisitedFiles(fs) : Parseable(f.content) => f \in last'.tried
        /\ \A e \in Entries(fs.auth) : [auth |-> e] \in last'.tried
        /\ \A e \in Entries(fs.mcp) : [mcp |-> e] \in last'.tried]_vars

\* C15: when an import completes, every parseable file below the storage
\* root whose write did not fail is read back under the key of its path
C15_ImportedFilesRead ==
    [][ImportCompletes =>
        \A f \in fs.storage :
            Parseable(f.content) /\ f \notin last'.failed
                => read(store', FileKey(f)) = Ok(f.content.json)]_vars

----------------------------------------------------------------------------
(* list *)

\* the elements of a sequence
Range(seq) == {seq[i] : i \in DOMAIN seq}

StoredKeys(st) == {k \in ListKeys : Stored(st, k) # NoDoc}

\* prefix is a prefix of key
HasPrefix(key, prefix) ==
    /\ key.type = prefix.type
    /\ Len(prefix.ids) <= Len(key.ids)
    /\ SubSeq(key.ids, 1, Len(prefix.ids)) = prefix.ids

\* C17: for every prefix, list returns exactly the stored keys that have
\* this prefix
C17_ListExactlyPrefix ==
    \A prefix \in Prefixes :
        Range(list(store, prefix)) = {k \in StoredKeys(store) : HasPrefix(k, prefix)}

\* the collections after writing the keys of a set, one after the other
RECURSIVE StoreOf(_)
StoreOf(keys) ==
    IF keys = {} THEN EmptyStore
    ELSE LET k == CHOOSE x \in keys : TRUE
         IN  write(StoreOf(keys \ {k}), k, << >>)

\* a sequence of keys ascends in the order of the string forms
Ascending(result) ==
    \A i, j \in DOMAIN result :
        i < j => ~StrLess(KeyString(result[j].ids), KeyString(result[i].ids))

\* C18: the result of list ascends in the order of the string forms of the
\* keys, and it is the result on any database that stores the same keys,
\* whatever the writes, removes and payloads were
C18_ListSortedAndDetermined ==
    \A prefix \in Prefixes :
        /\ Ascending(list(store, prefix))
        /\ list(store, prefix) = list(StoreOf(StoredKeys(store)), prefix)

C18_Witness ==
    /\ last.op = "list"
    /\ last.prefix = [type |-> "session", ids |-> << >>]
    /\ last.out = Ok(<<ListSessionPS, ListSessionQT>>)
    /\ hist[ListSessionP].removed
    /\ hist[ListSessionPS].base = <<0>>

\* C30: every key that list returns is a stored key, the one that was
\* given to write, and read finds it
C30_ListedKeysAreStored ==
    \A prefix \in Prefixes :
        \A k \in Range(list(store, prefix)) :
            k \in StoredKeys(store) /\ read(store, k).status = "ok"

----------------------------------------------------------------------------
(* Keys *)

\* C29: a step changes what read returns for a key only if it is a write
\* or remove of that very key
C29_DistinctKeysIndependent ==
    [][\A k \in IndepKeys :
        read(store', k) # read(store, k) => last' # last /\ last'.key = k]_vars

----------------------------------------------------------------------------
(* Life of the connection *)

\* C21: the config collection never holds anything but one document
\* "default", it holds it once a bootstrap has run to its end, and only
\* configSet changes or removes a default document that exists
C21_OneDefaultConfig ==
    /\ [](/\ Cardinality(sys["config"]) <= 1
          /\ \A d \in sys["config"] : d._id = "default"
          /\ Bootstrapped => Cardinality(sys["config"]) = 1)
    /\ [][\A d \in sys["config"] :
            d \notin sys'["config"] => Returns("configSet")]_vars

C21_Witness ==
    /\ Len(inits) = 2
    /\ inits[1].closed
    /\ inits[2].at = "done"
    /\ sys["config"] = {[_id |-> "default", data |-> [theme |-> 1]]}

\* C22: the doInit runs whose connect has succeeded are those that have
\* run bootstrap, and while a database handle is present no call starts
\* another doInit run
C22_BootstrapPerConnect ==
    /\ [](\A i \in DOMAIN inits : (inits[i].conn = "ok") = inits[i].boot)
    /\ [][db # 0 => Len(inits') = Len(inits)]_vars

\* C28: no importFromFilesystem call fails for want of a connection: as
\* first operation of a process it connects like the other operations
C28_ImportConnects ==
    ~(last.op = "import" /\ last.out = NotInitialized)

AuthStored(b, k) ==
    IF b = "mongo"
    THEN [d \in {x \in sys["auth"] : x.providerId = k} |-> d.data]
    ELSE LET e == FileEntries(fs.auth)
         IN  [i \in {j \in DOMAIN e : e[j].id = k} |-> e[i].data]

\* C24: after Auth.set(k, v), also when k was stored with another value, the
\* backend holds exactly one record for k and it holds v; an Auth.get(k) or
\* Auth.all() that follows on the same backend returns v for k.
C24_SetReplaces ==
    /\ [](last.op = "Auth.set" /\ last.out = Done
            => LET held == AuthStored(last.backend, last.call.id)
               IN  /\ Cardinality(DOMAIN held) = 1
                   /\ \A x \in DOMAIN held : held[x] = last.call.arg)
    /\ [][(/\ last.op = "Auth.set" /\ last.out = Done
            /\ last' # last
            /\ "backend" \in DOMAIN last' /\ last'.backend = last.backend
            /\ last'.out.status = "ok")
            => /\ (last'.op = "Auth.get" /\ last'.call.id = last.call.id)
                    => last'.out = Ok(last.call.arg)
               /\ last'.op = "Auth.all"
                    => Lookup(last'.out.value, last.call.id) = last.call.arg]_vars

\* provider b, stored with key k2 when the process started, has been set to
\* k1 and Auth.all() has returned it
C24_Witness ==
    /\ last.op = "Auth.all" /\ last.out.status = "ok" /\ last.backend = "mongo"
    /\ sys["mcp_auth"] # {}
    /\ Lookup(last.out.value, "b") = InfoK1
    /\ Cardinality(sys["auth"]) = 2

\* the entries [id, data] that backend b holds for Auth or for McpAuth
StoredEntries(b, mcp) ==
    IF b = "mongo"
    THEN IF mcp THEN {[id |-> d.mcpName, data |-> d.data] : d \in sys["mcp_auth"]}
         ELSE {[id |-> d.providerId, data |-> d.data] : d \in sys["auth"]}
    ELSE Range(FileEntries(IF mcp THEN fs.mcp ELSE fs.auth))

\* C25: Auth.all() and McpAuth.all() return, on either backend, exactly the
\* stored entries that pass validation, each once and as parsed; a malformed
\* entry beside them does not make the call fail.
C25_AllSkipsMalformed ==
    /\ (last.op = "Auth.all" /\ "backend" \in DOMAIN last)
        => /\ last.out.status = "ok"
           /\ Range(last.out.value) =
                {[id |-> e.id, data |-> ParsedInfo(e.data)] :
                    e \in {x \in StoredEntries(last.backend, FALSE) : ValidInfo(x.data)}}
           /\ Len(last.out.value) = Cardinality(Range(last.out.value))
    /\ (last.op = "McpAuth.all" /\ "backend" \in DOMAIN last)
        => /\ last.out.status = "ok"
           /\ Range(last.out.value) =
                {[id |-> e.id, data |-> ParsedEntry(e.data)] :
                    e \in {x \in StoredEntries(last.backend, TRUE) : ValidEntry(x.data)}}
           /\ Len(last.out.value) = Cardinality(Range(last.out.value))

\* Auth.all() has returned the one valid entry of a file that also holds a
\* malformed one
C25_Witness ==
    /\ last.op = "Auth.all" /\ "backend" \in DOMAIN last /\ last.backend = "file"
    /\ fs.auth = AuthFileA
    /\ last.out = Ok(<<[id |-> "a", data |-> InfoK1]>>)

McpEntry(sy, f, b, n) ==
    IF b = "mongo" THEN mcpAuthGet(sy, n) ELSE Lookup(FileEntries(f.mcp), n)

\* C26: a completed field update leaves the entries of the other servers as
\* they were, and of the named server's entry changes at most the field it
\* names.
C26_FieldUpdateFrame ==
    [][(last' # last /\ last'.op \in {o.op : o \in UpdateOps} /\ last'.out = Done)
        => LET b == last'.backend
               o == last'.call
               old == McpEntry(sys, fs, b, o.id)
               new == McpEntry(sys', fs', b, o.id)
           IN  /\ \A n \in Servers \ {o.id} :
                        McpEntry(sys', fs', b, n) = McpEntry(sys, fs, b, n)
               /\ old # NoValue =>
                    /\ new # NoValue
                    /\ DOMAIN new \ {FieldOf(o)} = DOMAIN old \ {FieldOf(o)}
                    /\ \A g \in DOMAIN old \ {FieldOf(o)} : new[g] = old[g]]_vars

\* C33: a stored document that a write made has version 1 plus the number
\* of update calls on its key that have returned their payload since,
\* however many writes, reads and failed attempts there were.
C33_VersionCountsUpdates ==
    LET d == Stored(store, HotKey)
    IN  d # NoDoc => d.version = 1 + hist[HotKey].updates

\* an update has returned, a write after it was the last call, and another
\* update has a failed conditional write behind it
C33_Witness ==
    /\ last.op = "write"
    /\ hist[HotKey].updates = 1
    /\ Stored(store, HotKey).data = last.arg
    /\ \E p \in Pair : attempt[p] > 0

\* C34: the conditional write of an update whose document was removed after
\* the update read it, and made again by a write, matches nothing: the
\* update does not return in that step and the new document stays as the
\* write left it.
C34_NoCommitOntoRecreated ==
    [][\A p \in Procs :
        (/\ CasStep(p)
         /\ p \in hist[call[p].key].stale
         /\ Stored(store, call[p].key) # NoDoc)
            => /\ ~Succeeds(p)
               /\ Stored(store', call[p].key) = Stored(store, call[p].key)]_vars

\* C35: in every attempt the draft is the mutate function applied once to
\* the payload that the findOne of that attempt found, and making it leaves
\* the stored payload alone; an update that returns has committed, and
\* returns, the draft of the attempt that matched.
C35_FreshCloneEachAttempt ==
    [][\A p \in Procs :
        /\ (FindStep(p) /\ pc'[p] = "cas")
                => /\ content'[p] =
                        Mutate(call[p].fn, Stored(store, call[p].key).data)
                   /\ store' = store
        /\ (CasStep(p) /\ Succeeds(p))
                => /\ last'.out = Ok(Mutate(call[p].fn, doc[p].data))
                   /\ Stored(store', call[p].key).data =
                        Mutate(call[p].fn, doc[p].data)]_vars

\* an update has returned from its second attempt, after a first one whose
\* draft was made from another payload
C35_Witness ==
    /\ last.op = "update" /\ last.out.status = "ok"
    /\ last.finds = 2
    /\ Len(last.out.value) = 2

\* C36: when the findOne of a retry, after a conditional write of the call
\* has matched nothing, finds that the document has been removed, the call
\* fails in that step with NotFound (code ENOENT), not with the conflict
\* error, and the key stays without document.
C36_RemovedBetweenAttempts ==
    [][\A p \in Procs :
        (/\ FindStep(p) /\ attempt[p] > 0
         /\ Stored(store, call[p].key) = NoDoc)
            => /\ pc'[p] = "idle"
               /\ last'.op = "update" /\ last'.proc = p
               /\ last'.out.status = "error" /\ last'.out.code = "ENOENT"
               /\ last'.out # Conflict
               /\ last'.finds = attempt[p] + 1 /\ last'.cass = attempt[p]
               /\ Stored(store', call[p].key) = NoDoc]_vars

\* an update has failed with NotFound in its second attempt, on a key that
\* another caller removed after the first conditional write
C36_Witness ==
    /\ last.op = "update" /\ last.out.status = "error" /\ last.out.code = "ENOENT"
    /\ last.finds = 2 /\ last.cass = 1
    /\ hist[last.key].removed
    /\ Stored(store, last.key) = NoDoc

\* C37: a running update call ends, whatever the other caller does
\* meanwhile; when it ends it has returned its payload, NotFound or the
\* conflict error, after at most 3 findOne and at most 3 conditional writes.
C37_UpdateTerminates ==
    /\ \A p \in Single : (pc[p] # "idle") ~> (pc[p] = "idle")
    /\ [][\A p \in Single :
            (pc[p] # "idle" /\ pc'[p] = "idle")
                => /\ last'.op = "update" /\ last'.proc = p
                   /\ \/ last'.out.status = "ok"
                      \/ last'.out = NotFound
                      \/ last'.out = Conflict
                   /\ last'.finds <= maxRetries /\ last'.cass <= maxRetries]_vars

\* an update has returned its payload from its third attempt
C37_Witness ==
    /\ last.op = "update" /\ last.out.status = "ok"
    /\ last.finds = 3 /\ last.cass = 3

\* C31: a call issues its database call only when the bootstrap of the
\* connection it uses has completed: the indexes are there and the default
\* config document has been ensured.
C31_NoCallBeforeBootstrap ==
    [][\A p \in Procs :
        (pc[p] = "ready" /\ pc'[p] = "idle" /\ db # 0)
            => /\ inits[db].at = "done"
               /\ indexes = {BootstrapIndexes[i] : i \in DOMAIN BootstrapIndexes}
               /\ sys["config"] # {}]_vars

\* C32: when two processes bootstrap the same empty database at the same
\* time, no initialization whose connect has succeeded fails, and when both
\* are done the config collection holds exactly one default document.
C32_ConcurrentBootstrap ==
    /\ \A i \in DOMAIN inits : inits[i].conn = "ok" => inits[i].at # "failed"
    /\ (Len(inits) = 2 /\ \A i \in DOMAIN inits : inits[i].at = "done")
            => sys["config"] = {DefaultConfig}

\* the connection attempt that the init promise stands for has failed
AttemptFailed == initPromise # 0 /\ inits[initPromise].conn = "failed"

\* caller p starts a storage operation in this step
Starts(p) == pc[p] = "idle" /\ pc'[p] \in {"init", "ready"}

\* C38: while the failed connection attempt is the recorded one, a storage
\* operation that starts does not start another attempt but awaits the
\* failed one, and ends with its error; once close() has cleared the
\* record, the next operation starts one new attempt.
C38_FailureSticksUntilClose ==
    [][\A p \in Procs :
        /\ (Starts(p) /\ AttemptFailed)
                => /\ Len(inits') = Len(inits)
                   /\ pc'[p] = "init" /\ waits'[p] = initPromise
        /\ (pc[p] = "init" /\ pc'[p] # "init" /\ inits[waits[p]].conn = "failed")
                => /\ pc'[p] = "idle"
                   /\ last' = [op |-> call[p].op, proc |-> p, out |-> ConnectError]
        /\ (Starts(p) /\ initPromise = 0)
                => /\ Len(inits') = Len(inits) + 1
                   /\ initPromise' = Len(inits') /\ waits'[p] = initPromise']_vars

\* C39: a database handle is present only if a client is present and the
\* connect of that client has completed, and a present client implies a
\* recorded init promise.
C39_ConnectionState ==
    /\ db # 0 => (client # 0 /\ db = client /\ inits[client].conn = "ok")
    /\ client # 0 => initPromise # 0

\* C40: the Bun.write that ends an Auth.set(k, v) or Auth.remove(k) on the
\* file changes no entry of auth.json but that of k: every other provider
\* has after it the entry it had before, with one caller and with two.
C40_FileWriteFrame ==
    [][\A p \in Procs :
        (pc[p] = "fileWrite" /\ pc'[p] = "idle")
            => \A k \in Providers \ {call[p].id} :
                    Lookup(FileEntries(fs'.auth), k) = Lookup(FileEntries(fs.auth), k)]_vars

====
